---- MODULE Spec2Model ----
(***************************************************************************)
(* Request admission and AI-response pipeline of the chat bot:             *)
(*   services/rate_limiter.py   RateLimiter.check_rate_limit               *)
(*   database/redis_client.py   get_redis_client                           *)
(*   services/ai_service.py     AIService (cache, provider calls, cost)    *)
(*   handlers/messages.py       process_text_message                       *)
(*   middleware/rate_limit.py   RateLimitMiddleware                        *)
(* Every await of the code is a separate step of a task, so that the tasks *)
(* of the asyncio event loop interleave exactly at the awaits.             *)
(***************************************************************************)
EXTENDS Integers, Sequences, FiniteSets, TLC

(***************************************************************************)
(* Model scale.  The wall clock is counted in minutes; an hour and a day   *)
(* are scaled down to MinutesPerHour and HoursPerDay units.  The Settings  *)
(* thresholds are read from the environment (pydantic BaseSettings); the   *)
(* model fixes a small configuration of them that keeps the order          *)
(* minute < hour < day and free < paid of the defaults.                    *)
(***************************************************************************)
MinutesPerHour == 2
HoursPerDay == 2
MaxTime == 4
MaxCalls == 5
MaxConcCalls == 2
MaxCacheCalls == 3
SubExpiry == 2

RATE_LIMIT_FREE_PER_MINUTE == 1
RATE_LIMIT_FREE_PER_HOUR == 2
RATE_LIMIT_FREE_PER_DAY == 3
RATE_LIMIT_PAID_PER_MINUTE == 2
RATE_LIMIT_PAID_PER_HOUR == 3
RATE_LIMIT_PAID_PER_DAY == 4

Tasks == {"t1", "t2"}
Identities == {1, 2}
Grans == {"minute", "hour", "day"}
NoTime == 0 - 1
NoVal == 0 - 1
Unread == 0 - 2
\* config.py:53-54, the message allowances of the free and the trial tier
FREE_MESSAGES_LIMIT == 1
TRIAL_MESSAGES_LIMIT == 2

\* config.py:47: CHANNEL_CHECK_CACHE_TTL, in minutes
CHANNEL_CHECK_CACHE_TTL == 1

\* requests the pipeline takes in a run
MaxRequests == 2

\* calls of check_subscription in a run
MaxGateCalls == 3

\* calls of process_text in a run of the stores
MaxStoreCalls == 2

\* the columns of a row of users the pipeline reads or writes
UserRow(exists, status, expires) ==
    [exists |-> exists,
     subscription_status |-> status,
     subscription_expires_at |-> expires,
     free_messages_used |-> 0,
     free_messages_limit |-> FREE_MESSAGES_LIMIT,
     trial_messages_used |-> 0,
     trial_messages_limit |-> TRIAL_MESSAGES_LIMIT,
     channel_subscribed |-> FALSE,
     channel_checked_at |-> 0 - 1,
     total_messages_sent |-> 0,
     total_tokens_used |-> 0,
     total_cost_estimated |-> 0]

\* scalar_one_or_none() found no row
NoUser == UserRow(FALSE, "free", 0 - 1)

\* no active conversation, and a new one (models.py:86-107)
NoConv == [exists |-> FALSE, message_count |-> 0, rows |-> 0]
NewConv == [exists |-> TRUE, message_count |-> 0, rows |-> 0]

\* config.py:37-38
AI_MAX_RETRIES == 3
AI_RETRY_DELAY == 2

\* config.py:21, 27, 42: the model names
GPT4 == "gpt-4-turbo-preview"
GPT35 == "gpt-3.5-turbo"
GEMINI == "gemini-pro"
AI_FALLBACK_MODEL == GPT35

\* message texts, answers of the backends and the token usage they report
Prompts == {"p1", "p2"}
Responses == {"r1", "r2"}
ReportedTokens == {1000, 5500}
NoResult == [response |-> "", tokens_used |-> 0, model |-> ""]

\* config.py:35: AI_CACHE_TTL = 3600 s, an hour of the clock
AI_CACHE_TTL == MinutesPerHour

\* config.py:22: OPENAI_TEMPERATURE
OPENAI_TEMPERATURE == "0.7"

\* no row of ai_cache
NoRow == [response |-> "", tokens_used |-> 0, expires_at |-> NoTime, hit_count |-> 0]

\* no store of a fingerprint has returned yet
NoStore ==
    [response |-> "", exp |-> NoTime, call |-> 0, volatile |-> "none",
     user_id |-> 0, history |-> <<>>]

VARIABLES
    clock,              \* datetime.utcnow(), in minutes
    db_users,           \* table users, by telegram_id
    redis_up,           \* the Redis server answers
    redis_url_set,      \* settings.REDIS_URL names a server
    redis_client_obj,   \* redis_client._redis_client is not None
    redis_available,    \* redis_client._redis_available
    redis_rate,         \* Redis keys rate_limit:<uid>:<gran>:<bucket>
    settings,           \* config.settings, the options the pipeline reads
    db_conv,            \* table conversations: the active one of each user
    db_analytics,       \* table analytics: the number of rows
    db_cache,           \* table ai_cache, by prompt_hash
    redis_cache,        \* Redis keys ai_cache:<prompt_hash>
    redis_sub,          \* Redis keys channel_sub:<uid>
    pc,                 \* where each task stands
    loc,                \* each task's local variables
    calls,              \* requests started so far
    allowedLog,         \* history: Allowed results per counter key
    storeLog            \* history: the last _save_cache that returned, by hash

vars == <<clock, db_users, redis_up, redis_url_set, redis_client_obj,
          redis_available, redis_rate, settings, db_conv, db_analytics, db_cache,
          redis_cache, redis_sub, pc, loc, calls, allowedLog, storeLog>>

\* what check_rate_limit never writes
notRateVars == <<settings, db_conv, db_analytics, db_cache, redis_cache, redis_sub, storeLog>>

\* everything but the task's own position and locals
sharedVars == <<clock, db_users, redis_up, redis_url_set, redis_client_obj,
                redis_available, redis_rate, settings, db_conv, db_analytics, db_cache,
                redis_cache, redis_sub, calls, allowedLog, storeLog>>

----------------------------------------------------------------------------
(* database/models.py *)

User(status, expires) == UserRow(TRUE, status, expires)

----------------------------------------------------------------------------
(* services/rate_limiter.py: pure parts *)

\* variant: the end of the subscription is not looked at
IsPaidWhileActive(user, now) == user.subscription_status = "active"

\* is_paid, rate_limiter.py:43-47
IsPaid(user, now) ==
    /\ user.subscription_status = "active"
    /\ user.subscription_expires_at # NoTime
    /\ user.subscription_expires_at > now

\* per_minute, per_hour, per_day, rate_limiter.py:49-56
Limits(paid) ==
    IF paid
    THEN [minute |-> RATE_LIMIT_PAID_PER_MINUTE,
          hour |-> RATE_LIMIT_PAID_PER_HOUR,
          day |-> RATE_LIMIT_PAID_PER_DAY]
    ELSE [minute |-> RATE_LIMIT_FREE_PER_MINUTE,
          hour |-> RATE_LIMIT_FREE_PER_HOUR,
          day |-> RATE_LIMIT_FREE_PER_DAY]

\* variant: the key carries no time stamp
BucketIdNoTime(g, now) == 0

\* now.strftime('%Y%m%d%H%M'), '%Y%m%d%H', '%Y%m%d': the clock truncated
BucketId(g, now) ==
    CASE g = "minute" -> now
      [] g = "hour" -> now \div MinutesPerHour
      [] g = "day" -> now \div (MinutesPerHour * HoursPerDay)

\* minute_key, hour_key, day_key, rate_limiter.py:65-67
RateKey(uid, g, now) == <<uid, g, BucketId(g, now)>>

\* pipe.expire(key, 60 | 3600 | 86400), in clock units
WindowTtl(g) ==
    CASE g = "minute" -> 1
      [] g = "hour" -> MinutesPerHour
      [] g = "day" -> MinutesPerHour * HoursPerDay

\* variant: the comparison is strict
OverLimitStrict(count, limit) == count # NoVal /\ count > limit

\* `if count and int(count) >= limit`, rate_limiter.py:71,75,79
OverLimit(count, limit) == count # NoVal /\ count >= limit

----------------------------------------------------------------------------
(* Redis *)

\* GET of a rate-limit key: None when the key is absent
RedisGet(store, k) == IF k \in DOMAIN store THEN store[k].val ELSE NoVal

\* variant: SET key 1 instead of INCR
RedisSetExpire(store, k, ttl, now) ==
    [x \in (DOMAIN store) \cup {k} |->
        IF x = k THEN [val |-> 1, exp |-> now + ttl] ELSE store[x]]

\* INCR then EXPIRE of one key
RedisIncrExpire(store, k, ttl, now) ==
    [x \in (DOMAIN store) \cup {k} |->
        IF x = k
        THEN [val |-> (IF k \in DOMAIN store THEN store[k].val ELSE 0) + 1,
              exp |-> now + ttl]
        ELSE store[x]]

\* variant: the day counter is left out of the pipeline
PipelineExecuteTwo(store, uid, keyNow, now) ==
    LET s1 == RedisIncrExpire(store, RateKey(uid, "minute", keyNow), WindowTtl("minute"), now)
    IN  RedisIncrExpire(s1, RateKey(uid, "hour", keyNow), WindowTtl("hour"), now)

\* the pipeline of rate_limiter.py:83-90, one MULTI/EXEC
PipelineExecute(store, uid, keyNow, now) ==
    LET s1 == RedisIncrExpire(store, RateKey(uid, "minute", keyNow), WindowTtl("minute"), now)
        s2 == RedisIncrExpire(s1, RateKey(uid, "hour", keyNow), WindowTtl("hour"), now)
    IN  RedisIncrExpire(s2, RateKey(uid, "day", keyNow), WindowTtl("day"), now)

\* keys whose time to live has run out are gone
Purge(store, now) ==
    [x \in {k \in DOMAIN store : store[k].exp > now} |-> store[x]]

EmptyStore == [x \in {} |-> 0]

----------------------------------------------------------------------------
(* Task locals *)

InitLoc ==
    [user_id |-> 0,
     user |-> NoUser,
     per |-> Limits(FALSE),
     has_redis |-> FALSE,
     now |-> 0,
     counts |-> [g \in Grans |-> Unread],
     fault |-> FALSE,
     path |-> "none",
     allowed |-> FALSE,
     reason |-> "none",
     prompt |-> "",
     history |-> <<>>,
     retry_count |-> 0,
     tries |-> 0,
     attempts |-> 0,
     fb_attempts |-> 0,
     early |-> 0,
     model_bound |-> FALSE,
     waits |-> <<>>,
     result |-> NoResult,
     raised |-> "none",
     call |-> 0,
     lookup |-> "none",
     lookup_t0 |-> 0,
     lookup_t1 |-> 0,
     q_now |-> 0,
     entry |-> NoRow,
     ttl |-> 0,
     expires_at |-> 0,
     from_cache |-> FALSE,
     session_expired |-> FALSE,
     dirty |-> {},
     conv |-> NoConv,
     is_subscribed |-> FALSE,
     gate_ok |-> FALSE,
     gate_src |-> "none",
     cost |-> 0,
     force_check |-> FALSE,
     gate_msg |-> "none",
     gate_t0 |-> 0,
     outcome |-> "none",
     answer |-> "",
     stages |-> <<>>,
     prior_store |-> NoStore,
     prior_hits |-> NoVal,
     tiers |-> <<>>,
     acct_failed |-> FALSE,
     start_user |-> NoUser,
     start_conv |-> NoConv]

RateKeys == Identities \X Grans \X (0..MaxTime)

\* the wall-clock window of granularity g that holds time now
Window(g, now) ==
    CASE g = "minute" -> now
      [] g = "hour" -> now \div MinutesPerHour
      [] g = "day" -> now \div (MinutesPerHour * HoursPerDay)

\* the entry of allowedLog for identity uid, granularity g, time now
LogKey(uid, g, now) == <<uid, g, Window(g, now)>>

TypeOK ==
    /\ clock \in 0..MaxTime
    /\ calls \in 0..MaxCalls
    /\ pc \in [Tasks -> STRING]
    /\ DOMAIN redis_rate \subseteq RateKeys
    /\ allowedLog \in [RateKeys -> 0..MaxCalls]
    /\ \A k \in DOMAIN db_cache : db_cache[k].expires_at \in 0..(MaxTime + AI_CACHE_TTL)
    /\ \A u \in Identities : db_users[u].total_messages_sent \in 0..MaxCalls
    /\ db_analytics \in 0..MaxCalls


----------------------------------------------------------------------------
(* database/redis_client.py: get_redis_client *)

\* redis_client.py:21-30: the client is cached, or no server is configured:
\* the call returns without awaiting
GrcImmediate == redis_client_obj \/ ~redis_url_set

\* redis_client.py:22, 29-30
GrcImmediateResult == redis_client_obj /\ redis_available

\* redis_client.py:21-59, the returns.  pc = site: the call returns at once
\* (:22, :30); pc = ping: the awaited _redis_client.ping() answered (:51-53)
\* or raised (:55-59).  has tells whether a client is returned.
GrcReturns(t, site, ping, has) ==
    \/ /\ pc[t] = site
       /\ GrcImmediate
       /\ has = GrcImmediateResult
       /\ redis_available' = (redis_client_obj /\ redis_available)
       /\ UNCHANGED redis_client_obj
    \/ /\ pc[t] = ping
       /\ redis_up
       /\ has = TRUE
       /\ redis_available' = TRUE
       /\ UNCHANGED redis_client_obj
    \/ /\ pc[t] = ping
       /\ ~redis_up
       /\ has = FALSE
       /\ redis_available' = FALSE
       /\ redis_client_obj' = FALSE

\* redis_client.py:32-50: the client object is made and ping() is awaited
GrcAwaits(t, site, ping) ==
    /\ pc[t] = site
    /\ ~GrcImmediate
    /\ redis_client_obj' = TRUE
    /\ pc' = [pc EXCEPT ![t] = ping]
    /\ UNCHANGED <<redis_available, loc>>

----------------------------------------------------------------------------
(* services/rate_limiter.py: RateLimiter.check_rate_limit *)

\* variant: the request is refused when Redis is absent or failed
FailClosed == FALSE

\* rate_limiter.py:96-99: `return True, None` when Redis is absent or failed
FailOpen == TRUE

\* `return allowed, message`: the result waits for the caller at rl_ret
RL_Result(t, l, path, allowed, reason) ==
    /\ pc' = [pc EXCEPT ![t] = "rl_ret"]
    /\ loc' = [loc EXCEPT ![t] =
                 [l EXCEPT !.path = path, !.allowed = allowed, !.reason = reason]]

\* a request of identity uid enters check_rate_limit
RL_Call(t, uid) ==
    /\ pc[t] = "idle"
    /\ calls < MaxCalls
    /\ calls' = calls + 1
    /\ pc' = [pc EXCEPT ![t] = "rl_select"]
    /\ loc' = [loc EXCEPT ![t] = [InitLoc EXCEPT !.user_id = uid]]
    /\ UNCHANGED <<clock, db_users, redis_up, redis_url_set, redis_client_obj,
                   redis_available, redis_rate, allowedLog>>
    /\ UNCHANGED notRateVars

\* variant: a user without a row is checked with the free thresholds
RL_SelectUserAny(t) ==
    /\ pc[t] = "rl_select"
    /\ LET user == db_users[loc[t].user_id]
       IN  /\ pc' = [pc EXCEPT ![t] = "rl_client"]
           /\ loc' = [loc EXCEPT ![t].user = user,
                                 ![t].per = Limits(IsPaid(user, clock))]
    /\ UNCHANGED <<clock, db_users, redis_up, redis_url_set, redis_client_obj,
                   redis_available, redis_rate, calls, allowedLog>>
    /\ UNCHANGED notRateVars

\* rate_limiter.py:34-56: the user is selected and the limits are chosen
RL_SelectUser(t) ==
    /\ pc[t] = "rl_select"
    /\ LET user == db_users[loc[t].user_id]
       IN  IF ~user.exists
           THEN RL_Result(t, loc[t], "nouser", FALSE, "user_not_found")
           ELSE /\ pc' = [pc EXCEPT ![t] = "rl_client"]
                /\ loc' = [loc EXCEPT ![t].user = user,
                                      ![t].per = Limits(IsPaid(user, clock))]
    /\ UNCHANGED <<clock, db_users, redis_up, redis_url_set, redis_client_obj,
                   redis_available, redis_rate, calls, allowedLog>>
    /\ UNCHANGED notRateVars

\* rate_limiter.py:34-37 raises (the database fails): the outer except,
\* rate_limiter.py:101-104, allows the request
RL_SelectRaise(t) ==
    /\ pc[t] = "rl_select"
    /\ RL_Result(t, loc[t], "dberror", TRUE, "none")
    /\ UNCHANGED <<clock, db_users, redis_up, redis_url_set, redis_client_obj,
                   redis_available, redis_rate, calls, allowedLog>>
    /\ UNCHANGED notRateVars

\* rate_limiter.py:61-64 and 96-99: with a client, now is read; without one
\* the request is allowed
RL_AfterClient(t, has) ==
    IF has
    THEN /\ pc' = [pc EXCEPT ![t] = "rl_get_minute"]
         /\ loc' = [loc EXCEPT ![t].has_redis = TRUE, ![t].now = clock]
    ELSE RL_Result(t, [loc[t] EXCEPT !.fault = TRUE], "failopen", FailOpen, "none")

\* rate_limiter.py:59
RL_GetClient(t) ==
    /\ \/ \E has \in BOOLEAN :
             GrcReturns(t, "rl_client", "rl_ping", has) /\ RL_AfterClient(t, has)
       \/ GrcAwaits(t, "rl_client", "rl_ping")
    /\ UNCHANGED <<clock, db_users, redis_up, redis_url_set, redis_rate,
                   calls, allowedLog>>
    /\ UNCHANGED notRateVars

\* variant: a refused request is counted on the counter that refused it
RL_GetCounting(t, g, nextpc) ==
    /\ pc[t] = "rl_get_" \o g
    /\ IF ~redis_up
       THEN /\ RL_Result(t, [loc[t] EXCEPT !.fault = TRUE], "failopen", FailOpen, "none")
            /\ UNCHANGED redis_rate
       ELSE LET k == RateKey(loc[t].user_id, g, loc[t].now)
                count == RedisGet(redis_rate, k)
                l == [loc[t] EXCEPT !.counts[g] = count]
            IN  IF OverLimit(count, loc[t].per[g])
                THEN /\ RL_Result(t, l, "redis", FALSE, g)
                     /\ redis_rate' = RedisIncrExpire(redis_rate, k, WindowTtl(g), clock)
                ELSE /\ pc' = [pc EXCEPT ![t] = nextpc]
                     /\ loc' = [loc EXCEPT ![t] = l]
                     /\ UNCHANGED redis_rate
    /\ UNCHANGED <<clock, db_users, redis_up, redis_url_set, redis_client_obj,
                   redis_available, calls, allowedLog>>
    /\ UNCHANGED notRateVars

\* rate_limiter.py:70-80: one counter is read and compared; a failed read is
\* caught at rate_limiter.py:93 and the request is allowed at :99
RL_Get(t, g, nextpc) ==
    /\ pc[t] = "rl_get_" \o g
    /\ IF ~redis_up
       THEN RL_Result(t, [loc[t] EXCEPT !.fault = TRUE], "failopen", FailOpen, "none")
       ELSE LET count == RedisGet(redis_rate, RateKey(loc[t].user_id, g, loc[t].now))
                l == [loc[t] EXCEPT !.counts[g] = count]
            IN  IF OverLimit(count, loc[t].per[g])
                THEN RL_Result(t, l, "redis", FALSE, g)
                ELSE /\ pc' = [pc EXCEPT ![t] = nextpc]
                     /\ loc' = [loc EXCEPT ![t] = l]
    /\ UNCHANGED <<clock, db_users, redis_up, redis_url_set, redis_client_obj,
                   redis_available, redis_rate, calls, allowedLog>>
    /\ UNCHANGED notRateVars

\* variant: the minute counter is not compared
RL_GetMinuteSkipped(t) ==
    /\ pc[t] = "rl_get_minute"
    /\ pc' = [pc EXCEPT ![t] = "rl_get_hour"]
    /\ UNCHANGED <<loc, clock, db_users, redis_up, redis_url_set, redis_client_obj,
                   redis_available, redis_rate, calls, allowedLog>>
    /\ UNCHANGED notRateVars

RL_GetMinute(t) == RL_Get(t, "minute", "rl_get_hour")

RL_GetHour(t) == RL_Get(t, "hour", "rl_get_day")

RL_GetDay(t) == RL_Get(t, "day", "rl_incr")

\* rate_limiter.py:83-92: the three counters are incremented in one pipeline
\* and the request is allowed; a failed pipeline is caught at :93
RL_Incr(t) ==
    /\ pc[t] = "rl_incr"
    /\ IF ~redis_up
       THEN /\ RL_Result(t, [loc[t] EXCEPT !.fault = TRUE], "failopen", FailOpen, "none")
            /\ UNCHANGED <<redis_rate, allowedLog>>
       ELSE /\ redis_rate' = PipelineExecute(redis_rate, loc[t].user_id, loc[t].now, clock)
            /\ allowedLog' =
                 [k \in RateKeys |->
                    IF k \in {LogKey(loc[t].user_id, g, loc[t].now) : g \in Grans}
                    THEN allowedLog[k] + 1 ELSE allowedLog[k]]
            /\ RL_Result(t, loc[t], "redis", TRUE, "none")
    /\ UNCHANGED <<clock, db_users, redis_up, redis_url_set, redis_client_obj,
                   redis_available, calls>>
    /\ UNCHANGED notRateVars

\* the caller has taken the result
RL_Done(t) ==
    /\ pc[t] = "rl_ret"
    /\ pc' = [pc EXCEPT ![t] = "idle"]
    /\ loc' = [loc EXCEPT ![t] = InitLoc]
    /\ UNCHANGED <<clock, db_users, redis_up, redis_url_set, redis_client_obj,
                   redis_available, redis_rate, calls, allowedLog>>
    /\ UNCHANGED notRateVars

----------------------------------------------------------------------------
(* Environment *)

\* a minute passes; Redis drops the keys whose time to live ran out
Tick ==
    /\ clock < MaxTime
    /\ clock' = clock + 1
    /\ redis_rate' = Purge(redis_rate, clock + 1)
    /\ redis_cache' = Purge(redis_cache, clock + 1)
    /\ redis_sub' = Purge(redis_sub, clock + 1)
    /\ UNCHANGED <<db_users, redis_up, redis_url_set, redis_client_obj,
                   redis_available, settings, db_conv, db_analytics, db_cache, pc, loc,
                   calls, allowedLog, storeLog>>

\* the Redis server goes down or comes back
RedisFlip ==
    /\ redis_url_set
    /\ redis_up' = ~redis_up
    /\ UNCHANGED <<clock, db_users, redis_url_set, redis_client_obj,
                   redis_available, redis_rate, pc, loc, calls, allowedLog>>
    /\ UNCHANGED notRateVars

----------------------------------------------------------------------------
(* Specifications of the rate limiter *)

\* identity 1 has a user record, free or paid until SubExpiry; identity 2
\* has none
InitUsers ==
    {[u \in Identities |-> IF u = 1 THEN r ELSE NoUser] :
        r \in {User("free", NoTime), User("active", SubExpiry)}}

\* the default options of config.py
DefaultSettings ==
    [AI_PROVIDER |-> "openai",
     OPENAI_MODEL |-> GPT4,
     AI_FALLBACK_ENABLED |-> TRUE,
     API_KEY_SET |-> TRUE,
     AI_CACHE_ENABLED |-> TRUE,
     REQUIRED_CHANNEL_SET |-> FALSE]

\* nothing is stored yet and every task is idle
InitStores ==
    /\ clock = 0
    /\ redis_client_obj = FALSE
    /\ redis_available = FALSE
    /\ redis_rate = EmptyStore
    /\ redis_cache = EmptyStore
    /\ redis_sub = EmptyStore
    /\ db_cache = EmptyStore
    /\ db_conv = [u \in Identities |-> NoConv]
    /\ db_analytics = 0
    /\ pc = [t \in Tasks |-> "idle"]
    /\ loc = [t \in Tasks |-> InitLoc]
    /\ calls = 0
    /\ allowedLog = [k \in RateKeys |-> 0]
    /\ storeLog = EmptyStore

InitRLCommon ==
    /\ InitStores
    /\ db_users \in InitUsers
    /\ settings = DefaultSettings

\* the counter store is configured and reachable
InitRL ==
    /\ InitRLCommon
    /\ redis_up = TRUE
    /\ redis_url_set = TRUE

\* the steps of check_rate_limit
RL_Body(t) ==
    \/ RL_SelectUser(t)
    \/ RL_GetClient(t)
    \/ RL_GetMinute(t)
    \/ RL_GetHour(t)
    \/ RL_GetDay(t)
    \/ RL_Incr(t)

RL_Step(t) ==
    \/ RL_Body(t)
    \/ RL_Done(t)

AllIdle == \A t \in Tasks : pc[t] = "idle"

\* the tasks are interchangeable: t2 serves a request only while t1 is busy
TaskFree(t) == t = "t1" \/ pc["t1"] # "idle"

\* concurrent calls of identity 1, no lock
NextRL ==
    \/ \E t \in Tasks : TaskFree(t) /\ calls < MaxConcCalls /\ RL_Call(t, 1)
    \/ \E t \in Tasks : RL_Step(t)
    \/ Tick

SpecRL == InitRL /\ [][NextRL]_vars

\* calls made one after another
NextRLSeq ==
    \/ \E t \in Tasks, uid \in Identities : AllIdle /\ RL_Call(t, uid)
    \/ \E t \in Tasks : RL_Step(t)
    \/ Tick

SpecRLSeq == InitRL /\ [][NextRLSeq]_vars

\* models.py:14-19: the values of SubscriptionStatus
SubscriptionStatus == {"free", "trial", "active", "expired", "cancelled"}

\* a user of every status, with an end of the subscription and without one
InitTierUsers ==
    {[u \in Identities |-> IF u = 1 THEN User(s, x) ELSE NoUser] :
        s \in SubscriptionStatus, x \in {NoTime, SubExpiry}}

InitRLTier ==
    /\ InitStores
    /\ db_users \in InitTierUsers
    /\ settings = DefaultSettings
    /\ redis_up = TRUE
    /\ redis_url_set = TRUE

\* calls of the user made one after another while the subscription runs out
NextRLTier ==
    \/ \E t \in Tasks : AllIdle /\ calls < MaxConcCalls /\ RL_Call(t, 1)
    \/ \E t \in Tasks : RL_Step(t)
    \/ AllIdle /\ Tick

SpecRLTier == InitRLTier /\ [][NextRLTier]_vars

\* the counter store may be absent or fail, and the database may fail
InitRLFail ==
    /\ InitRLCommon
    /\ redis_up \in BOOLEAN
    /\ redis_url_set \in BOOLEAN

NextRLFail ==
    \/ \E t \in Tasks, uid \in Identities : AllIdle /\ RL_Call(t, uid)
    \/ \E t \in Tasks : RL_Step(t)
    \/ \E t \in Tasks : RL_SelectRaise(t)
    \/ Tick
    \/ RedisFlip

SpecRLFail == InitRLFail /\ [][NextRLFail]_vars

----------------------------------------------------------------------------
(* services/ai_service.py: AIService._call_openai, AIService._call_google_ai *)

\* len(text.split()) of the texts of the model
WordCount(text) ==
    CASE text = "p1" -> 1
      [] text = "p2" -> 2
      [] text = "r1" -> 2
      [] text = "r2" -> 3
      [] OTHER -> 0

RECURSIVE ContextWords(_)
\* ai_service.py:242-246: a line "<role name>: <content>" for each message
ContextWords(history) ==
    IF history = <<>> THEN 0
    ELSE 1 + WordCount(Head(history).content) + ContextWords(Tail(history))

\* ai_service.py:240-247: the words of full_prompt
FullPromptWords(prompt, history) ==
    IF history = <<>>
    THEN WordCount(prompt)
    ELSE ContextWords(history) + 1 + WordCount(prompt) + 1

\* ai_service.py:140, 205: the API key of the selected backend is set
ApiKeySet == settings.API_KEY_SET

\* ai_service.py:153, 215: the model the call asks for
PrimaryModel == IF settings.AI_PROVIDER = "openai" THEN settings.OPENAI_MODEL ELSE GEMINI

\* variant: one more round is allowed
MayRetryInclusive(retry_count) == retry_count <= AI_MAX_RETRIES

\* ai_service.py:172, 276
MayRetry(retry_count) == retry_count < AI_MAX_RETRIES

\* ai_service.py:177: fallback is tried by _call_openai only
FallbackConfigured ==
    /\ settings.AI_PROVIDER = "openai"
    /\ settings.AI_FALLBACK_ENABLED
    /\ settings.OPENAI_MODEL # AI_FALLBACK_MODEL

\* the call ends and its result or exception waits for the caller
Prov_End(t, l, result, raised) ==
    /\ pc' = [pc EXCEPT ![t] = "prov_ret"]
    /\ loc' = [loc EXCEPT ![t] = [l EXCEPT !.result = result, !.raised = raised]]

\* ai_service.py:140-160 and 205-257: a round begins.  Without an API key
\* ValueError leaves the function at once; else the messages are built and
\* the backend is called
Prov_Enter(t) ==
    /\ pc[t] = "prov_call"
    /\ IF ~ApiKeySet
       THEN Prov_End(t, loc[t], NoResult, "ValueError")
       ELSE /\ pc' = [pc EXCEPT ![t] = "prov_await"]
            /\ loc' = [loc EXCEPT ![t].tries = @ + 1,
                                  ![t].attempts = @ + 1,
                                  ![t].model_bound = TRUE]
    /\ UNCHANGED sharedVars

\* ai_service.py:168-196 and 273-280: the except block of a round that failed
\* at retry_count: another round after a sleep, else the fallback model
\* (_call_openai only), else the exception leaves the function through every
\* enclosing round.  l holds the locals of the failed round.
Prov_Except(t, l) ==
    IF MayRetry(l.retry_count)
    THEN /\ pc' = [pc EXCEPT ![t] = "prov_sleep"]
         /\ loc' = [loc EXCEPT ![t] = l]
    ELSE IF settings.AI_PROVIDER = "openai" /\ settings.AI_FALLBACK_ENABLED
         THEN IF ~l.model_bound
              THEN Prov_End(t, l, NoResult, "UnboundLocalError")
              ELSE IF PrimaryModel # AI_FALLBACK_MODEL
                   THEN /\ pc' = [pc EXCEPT ![t] = "prov_fb_await"]
                        /\ loc' = [loc EXCEPT ![t] = [l EXCEPT !.fb_attempts = @ + 1]]
                   ELSE Prov_End(t, l, NoResult, "BackendError")
         ELSE Prov_End(t, l, NoResult, "BackendError")

\* ai_service.py:144-146, 209-237: the import of the SDK or the making of
\* the client raises before the backend is called and before `model` is bound
Prov_EarlyRaise(t) ==
    /\ pc[t] = "prov_call"
    /\ ApiKeySet
    /\ Prov_Except(t, [loc[t] EXCEPT !.tries = @ + 1, !.early = @ + 1,
                                     !.model_bound = FALSE])
    /\ UNCHANGED sharedVars

\* ai_service.py:155-166 and 250-271: the backend answers
Prov_Success(t, r, n) ==
    /\ pc[t] = "prov_await"
    /\ LET tokens == IF settings.AI_PROVIDER = "openai" THEN n
                     ELSE FullPromptWords(loc[t].prompt, loc[t].history) + WordCount(r)
       IN  Prov_End(t, loc[t],
                    [response |-> r, tokens_used |-> tokens, model |-> PrimaryModel],
                    "none")
    /\ UNCHANGED sharedVars

\* the backend call raises or runs into the timeout
Prov_Failure(t) ==
    /\ pc[t] = "prov_await"
    /\ Prov_Except(t, loc[t])
    /\ UNCHANGED sharedVars

\* variant: every wait is AI_RETRY_DELAY long
Prov_SleepFlat(t) ==
    /\ pc[t] = "prov_sleep"
    /\ pc' = [pc EXCEPT ![t] = "prov_call"]
    /\ loc' = [loc EXCEPT ![t].waits = Append(@, AI_RETRY_DELAY),
                          ![t].retry_count = @ + 1]
    /\ UNCHANGED sharedVars

\* ai_service.py:173-174, 277-278: asyncio.sleep(AI_RETRY_DELAY * (retry_count
\* + 1)) is over and the function calls itself with retry_count + 1
Prov_Sleep(t) ==
    /\ pc[t] = "prov_sleep"
    /\ pc' = [pc EXCEPT ![t] = "prov_call"]
    /\ loc' = [loc EXCEPT ![t].waits = Append(@, AI_RETRY_DELAY * (loc[t].retry_count + 1)),
                          ![t].retry_count = @ + 1]
    /\ UNCHANGED sharedVars

\* variant: the answer of the fallback model is reported under the
\* configured model
Prov_FallbackSuccessAsPrimary(t, r, n) ==
    /\ pc[t] = "prov_fb_await"
    /\ Prov_End(t, loc[t],
                [response |-> r, tokens_used |-> n, model |-> PrimaryModel],
                "none")
    /\ UNCHANGED sharedVars

\* ai_service.py:182-192: the fallback model answers
Prov_FallbackSuccess(t, r, n) ==
    /\ pc[t] = "prov_fb_await"
    /\ Prov_End(t, loc[t],
                [response |-> r, tokens_used |-> n, model |-> AI_FALLBACK_MODEL],
                "none")
    /\ UNCHANGED sharedVars

\* ai_service.py:193-196: the fallback call fails too and the exception of
\* the last round is raised again
Prov_FallbackFailure(t) ==
    /\ pc[t] = "prov_fb_await"
    /\ Prov_End(t, loc[t], NoResult, "BackendError")
    /\ UNCHANGED sharedVars

Prov_Step(t) ==
    \/ Prov_Enter(t)
    \/ Prov_EarlyRaise(t)
    \/ \E r \in Responses, n \in ReportedTokens : Prov_Success(t, r, n)
    \/ Prov_Failure(t)
    \/ Prov_Sleep(t)
    \/ \E r \in Responses, n \in ReportedTokens : Prov_FallbackSuccess(t, r, n)
    \/ Prov_FallbackFailure(t)

----------------------------------------------------------------------------
(* services/ai_service.py: _hash_prompt, _get_cache, _save_cache, process_text *)

\* ai_service.py:30-34: the digest of "<prompt>:<model>:<temperature>"; the
\* model is the configured one of the provider, never the fallback model
HashPrompt(prompt) == <<prompt, PrimaryModel, OPENAI_TEMPERATURE>>

\* variant: the user is part of the hash
FpPerUser(t) == <<loc[t].prompt, PrimaryModel, OPENAI_TEMPERATURE, loc[t].user_id>>

\* the hash of the task's prompt
Fp(t) == HashPrompt(loc[t].prompt)

\* SETEX key ttl value
RedisSetex(store, k, ttl, value, now) ==
    [x \in (DOMAIN store) \cup {k} |->
        IF x = k THEN [val |-> value, exp |-> now + ttl] ELSE store[x]]

\* variant: a row counts as expired a minute early
RowValidEarly(row, now) == row.expires_at > now + 1

\* ai_service.py:58: AICache.expires_at > datetime.utcnow()
RowValid(row, now) == row.expires_at > now

\* variant: the cache is used whatever the configuration says
CacheEnabledAlways == TRUE

\* ai_service.py:38, 95: settings.AI_CACHE_ENABLED
CacheEnabled == settings.AI_CACHE_ENABLED

\* ai_service.py:304-312: process_text returns the cached response
PT_ReturnCached(t, l, tier, response) ==
    /\ pc' = [pc EXCEPT ![t] = "pt_ret"]
    /\ loc' = [loc EXCEPT ![t] =
                 [l EXCEPT !.lookup = tier,
                           !.lookup_t1 = clock,
                           !.from_cache = TRUE,
                           !.result = [response |-> response,
                                       tokens_used |-> 0,
                                       model |-> settings.AI_PROVIDER \o "_cached"]]]

\* ai_service.py:85 and 314-319: _get_cache returns None and process_text
\* calls the backend
PT_Miss(t, l) ==
    /\ pc' = [pc EXCEPT ![t] = "prov_call"]
    /\ loc' = [loc EXCEPT ![t] = [l EXCEPT !.lookup = "miss", !.lookup_t1 = clock,
                                           !.stages = Append(@, "provider")]]

\* ai_service.py:295-302 and 38-39: process_text begins with the lookup of
\* the cache, a Miss at once when caching is disabled
PT_Begin(t, l) ==
    LET fp == HashPrompt(l.prompt)
        b == [l EXCEPT !.lookup_t0 = clock, !.stages = Append(@, "lookup"),
                       !.prior_store = IF fp \in DOMAIN storeLog
                                       THEN storeLog[fp] ELSE NoStore,
                       !.prior_hits = IF fp \in DOMAIN db_cache
                                      THEN db_cache[fp].hit_count ELSE NoVal]
    IN  IF CacheEnabled
        THEN /\ pc' = [pc EXCEPT ![t] = "gc_client"]
             /\ loc' = [loc EXCEPT ![t] = b]
        ELSE PT_Miss(t, b)

\* process_text is called on its own
PT_Call(t, uid, prompt, history) ==
    /\ pc[t] = "idle"
    /\ calls < MaxCalls
    /\ calls' = calls + 1
    /\ PT_Begin(t, [InitLoc EXCEPT !.user_id = uid, !.prompt = prompt,
                                   !.history = history, !.call = calls + 1])
    /\ UNCHANGED <<clock, db_users, redis_up, redis_url_set, redis_client_obj,
                   redis_available, redis_rate, settings, db_conv, db_analytics, db_cache,
                   redis_cache, redis_sub, allowedLog, storeLog>>

\* ai_service.py:44-55: with a client Redis is asked first, else the table
GC_AfterClient(t, has) ==
    IF has
    THEN /\ pc' = [pc EXCEPT ![t] = "gc_redis_get"]
         /\ loc' = [loc EXCEPT ![t].has_redis = TRUE]
    ELSE /\ pc' = [pc EXCEPT ![t] = "gc_select"]
         /\ loc' = [loc EXCEPT ![t].has_redis = FALSE, ![t].q_now = clock]

\* ai_service.py:43
GC_Client(t) ==
    /\ \/ \E has \in BOOLEAN :
             GrcReturns(t, "gc_client", "gc_ping", has) /\ GC_AfterClient(t, has)
       \/ GrcAwaits(t, "gc_client", "gc_ping")
    /\ UNCHANGED <<clock, db_users, redis_up, redis_url_set, redis_rate, settings,
                   db_conv, db_analytics, db_cache, redis_cache, redis_sub, calls, allowedLog,
                   storeLog>>

\* ai_service.py:46-52: GET ai_cache:<hash>; a value is returned as the
\* response, an error is ignored
GC_RedisGet(t) ==
    /\ pc[t] = "gc_redis_get"
    /\ LET l == [loc[t] EXCEPT !.tiers = Append(@, "volatile")]
       IN  IF redis_up /\ Fp(t) \in DOMAIN redis_cache
           THEN PT_ReturnCached(t, l, "volatile", redis_cache[Fp(t)].val)
           ELSE /\ pc' = [pc EXCEPT ![t] = "gc_select"]
                /\ loc' = [loc EXCEPT ![t] = [l EXCEPT !.q_now = clock]]
    /\ UNCHANGED sharedVars

\* ai_service.py:55-66: the row of the hash that has not expired is selected;
\* its hit_count is raised and the session is committed
GC_Select(t) ==
    /\ pc[t] = "gc_select"
    /\ LET l == [loc[t] EXCEPT !.tiers = Append(@, "durable")]
       IN  IF Fp(t) \in DOMAIN db_cache /\ RowValid(db_cache[Fp(t)], l.q_now)
           THEN /\ pc' = [pc EXCEPT ![t] = "gc_commit"]
                /\ loc' = [loc EXCEPT ![t] =
                             [l EXCEPT !.entry =
                                 [db_cache[Fp(t)] EXCEPT !.hit_count = @ + 1]]]
           ELSE PT_Miss(t, l)
    /\ UNCHANGED sharedVars

\* ai_service.py:66-80: the commit writes hit_count; with a client the time
\* left until expires_at is computed for SETEX, else the response is returned
GC_Commit(t) ==
    /\ pc[t] = "gc_commit"
    /\ db_cache' = [db_cache EXCEPT ![Fp(t)].hit_count = loc[t].entry.hit_count]
    /\ IF loc[t].has_redis
       THEN /\ pc' = [pc EXCEPT ![t] = "gc_repop"]
            /\ loc' = [loc EXCEPT ![t].ttl = loc[t].entry.expires_at - clock]
       ELSE PT_ReturnCached(t, loc[t], "durable", loc[t].entry.response)
    /\ UNCHANGED <<clock, db_users, redis_up, redis_url_set, redis_client_obj,
                   redis_available, redis_rate, settings, db_conv, db_analytics, redis_cache,
                   redis_sub, calls, allowedLog, storeLog>>

\* ai_service.py:70-80: SETEX with the time left (Redis refuses a time that
\* is not positive); an error is ignored; the response is returned
GC_Repop(t) ==
    /\ pc[t] = "gc_repop"
    /\ redis_cache' =
         IF redis_up /\ loc[t].ttl > 0
         THEN RedisSetex(redis_cache, Fp(t), loc[t].ttl, loc[t].entry.response, clock)
         ELSE redis_cache
    /\ PT_ReturnCached(t, loc[t], "durable", loc[t].entry.response)
    /\ UNCHANGED <<clock, db_users, redis_up, redis_url_set, redis_client_obj,
                   redis_available, redis_rate, settings, db_conv, db_analytics, db_cache,
                   redis_sub, calls, allowedLog, storeLog>>

\* _save_cache has returned to process_text, which returns the result
\* (ai_service.py:331); storeLog notes the store and what became of its
\* write to Redis: "written", "failed" (the SETEX raised), "no_client" or
\* "not_tried" (the INSERT failed before)
PT_Stored(t, l, volatile) ==
    /\ pc' = [pc EXCEPT ![t] = "pt_ret"]
    /\ loc' = [loc EXCEPT ![t] = l]
    /\ storeLog' =
         [x \in (DOMAIN storeLog) \cup {Fp(t)} |->
            IF x = Fp(t)
            THEN [response |-> l.result.response, exp |-> l.expires_at,
                  call |-> l.call, volatile |-> volatile,
                  user_id |-> l.user_id, history |-> l.history]
            ELSE storeLog[x]]

\* variant: the store is made after a failed call of the backend as well
PT_AfterProviderStoreAlways(t) ==
    /\ pc[t] = "prov_ret"
    /\ IF ~CacheEnabled
       THEN /\ pc' = [pc EXCEPT ![t] = "pt_ret"]
            /\ loc' = [loc EXCEPT ![t].stages = Append(@, "store")]
       ELSE /\ pc' = [pc EXCEPT ![t] = "sc_commit"]
            /\ loc' = [loc EXCEPT ![t].expires_at = clock + AI_CACHE_TTL,
                                  ![t].stages = Append(@, "store")]
    /\ UNCHANGED sharedVars

\* ai_service.py:321-335 and 95-111: the call of the backend is over.  Its
\* exception is raised again; else, caching enabled, the row is added with
\* expires_at = now + AI_CACHE_TTL and the commit is awaited
PT_AfterProvider(t) ==
    /\ pc[t] = "prov_ret"
    /\ IF loc[t].raised # "none"
       THEN /\ pc' = [pc EXCEPT ![t] = "pt_ret"]
            /\ UNCHANGED loc
       ELSE IF ~CacheEnabled
            THEN /\ pc' = [pc EXCEPT ![t] = "pt_ret"]
                 /\ loc' = [loc EXCEPT ![t].stages = Append(@, "store")]
            ELSE /\ pc' = [pc EXCEPT ![t] = "sc_commit"]
                 /\ loc' = [loc EXCEPT ![t].expires_at = clock + AI_CACHE_TTL,
                                       ![t].stages = Append(@, "store")]
    /\ UNCHANGED sharedVars

\* variant: after a failed INSERT the response is written to Redis all the
\* same
SC_CommitThenRedis(t) ==
    /\ pc[t] = "sc_commit"
    /\ db_cache' =
         IF Fp(t) \in DOMAIN db_cache THEN db_cache
         ELSE [x \in (DOMAIN db_cache) \cup {Fp(t)} |->
                 IF x = Fp(t)
                 THEN [response |-> loc[t].result.response,
                       tokens_used |-> loc[t].result.tokens_used,
                       expires_at |-> loc[t].expires_at,
                       hit_count |-> 0]
                 ELSE db_cache[x]]
    /\ pc' = [pc EXCEPT ![t] = "sc_client"]
    /\ UNCHANGED <<loc, storeLog>>
    /\ UNCHANGED <<clock, db_users, redis_up, redis_url_set, redis_client_obj,
                   redis_available, redis_rate, settings, db_conv, db_analytics, redis_cache,
                   redis_sub, calls, allowedLog>>

\* ai_service.py:103-111 and 126-131: the INSERT.  cache_key is unique
\* (models.py:195): with a row of the hash in the table, expired or not, the
\* commit raises, the session is rolled back and _save_cache returns
SC_Commit(t) ==
    /\ pc[t] = "sc_commit"
    /\ IF Fp(t) \in DOMAIN db_cache
       THEN /\ PT_Stored(t, [loc[t] EXCEPT !.session_expired = TRUE], "not_tried")
            /\ UNCHANGED db_cache
       ELSE /\ db_cache' =
                 [x \in (DOMAIN db_cache) \cup {Fp(t)} |->
                    IF x = Fp(t)
                    THEN [response |-> loc[t].result.response,
                          tokens_used |-> loc[t].result.tokens_used,
                          expires_at |-> loc[t].expires_at,
                          hit_count |-> 0]
                    ELSE db_cache[x]]
            /\ pc' = [pc EXCEPT ![t] = "sc_client"]
            /\ UNCHANGED <<loc, storeLog>>
    /\ UNCHANGED <<clock, db_users, redis_up, redis_url_set, redis_client_obj,
                   redis_available, redis_rate, settings, db_conv, db_analytics, redis_cache,
                   redis_sub, calls, allowedLog>>

\* ai_service.py:115-124: with a client the response is written to Redis
SC_AfterClient(t, has) ==
    IF has
    THEN /\ pc' = [pc EXCEPT ![t] = "sc_setex"]
         /\ loc' = [loc EXCEPT ![t].has_redis = TRUE]
         /\ UNCHANGED storeLog
    ELSE PT_Stored(t, loc[t], "no_client")

\* ai_service.py:114
SC_Client(t) ==
    /\ \/ \E has \in BOOLEAN :
             GrcReturns(t, "sc_client", "sc_ping", has) /\ SC_AfterClient(t, has)
       \/ GrcAwaits(t, "sc_client", "sc_ping") /\ UNCHANGED storeLog
    /\ UNCHANGED <<clock, db_users, redis_up, redis_url_set, redis_rate, settings,
                   db_conv, db_analytics, db_cache, redis_cache, redis_sub, calls, allowedLog>>

\* ai_service.py:116-124: SETEX ai_cache:<hash> AI_CACHE_TTL response; an
\* error is ignored
SC_Setex(t) ==
    /\ pc[t] = "sc_setex"
    /\ redis_cache' =
         IF redis_up
         THEN RedisSetex(redis_cache, Fp(t), AI_CACHE_TTL, loc[t].result.response, clock)
         ELSE redis_cache
    /\ PT_Stored(t, loc[t], IF redis_up THEN "written" ELSE "failed")
    /\ UNCHANGED <<clock, db_users, redis_up, redis_url_set, redis_client_obj,
                   redis_available, redis_rate, settings, db_conv, db_analytics, db_cache,
                   redis_sub, calls, allowedLog>>

\* the caller of process_text has taken the result or the exception
PT_Done(t) ==
    /\ pc[t] = "pt_ret"
    /\ pc' = [pc EXCEPT ![t] = "idle"]
    /\ loc' = [loc EXCEPT ![t] = InitLoc]
    /\ UNCHANGED sharedVars

PT_Step(t) ==
    \/ GC_Client(t)
    \/ GC_RedisGet(t)
    \/ GC_Select(t)
    \/ GC_Commit(t)
    \/ GC_Repop(t)
    \/ Prov_Step(t)
    \/ PT_AfterProvider(t)
    \/ SC_Commit(t)
    \/ SC_Client(t)
    \/ SC_Setex(t)

----------------------------------------------------------------------------
(* Specification of the provider client *)

\* ai_service.py:316-319: process_text calls the backend of AI_PROVIDER
\* with the prompt and the history of the conversation
Prov_Call(t, prompt, history) ==
    /\ pc[t] = "idle"
    /\ calls < MaxCalls
    /\ calls' = calls + 1
    /\ pc' = [pc EXCEPT ![t] = "prov_call"]
    /\ loc' = [loc EXCEPT ![t] = [InitLoc EXCEPT !.prompt = prompt, !.history = history]]
    /\ UNCHANGED <<clock, db_users, redis_up, redis_url_set, redis_client_obj,
                   redis_available, redis_rate, settings, db_conv, db_analytics, db_cache,
                   redis_cache, redis_sub, allowedLog, storeLog>>

\* the caller has taken the result or the exception
Prov_Done(t) ==
    /\ pc[t] = "prov_ret"
    /\ pc' = [pc EXCEPT ![t] = "idle"]
    /\ loc' = [loc EXCEPT ![t] = InitLoc]
    /\ UNCHANGED sharedVars

\* the options of config.py the pipeline reads
SettingsSet ==
    [AI_PROVIDER : {"openai", "google"},
     OPENAI_MODEL : {GPT4, GPT35},
     AI_FALLBACK_ENABLED : BOOLEAN,
     API_KEY_SET : BOOLEAN,
     AI_CACHE_ENABLED : BOOLEAN,
     REQUIRED_CHANNEL_SET : BOOLEAN]

\* the histories handed to the provider client
Histories ==
    {<<>>, <<[role |-> "user", content |-> "p1"], [role |-> "assistant", content |-> "r1"]>>}

InitProvider ==
    /\ InitStores
    /\ db_users \in InitUsers
    /\ redis_up = TRUE
    /\ redis_url_set = FALSE
    /\ settings \in {c \in SettingsSet : c.AI_CACHE_ENABLED /\ ~c.REQUIRED_CHANNEL_SET}

NextProvider ==
    \/ \E t \in Tasks, p \in Prompts, h \in Histories : AllIdle /\ Prov_Call(t, p, h)
    \/ \E t \in Tasks : Prov_Step(t)
    \/ \E t \in Tasks : Prov_Done(t)

SpecProvider == InitProvider /\ [][NextProvider]_vars

----------------------------------------------------------------------------
(* Specification of process_text with the response cache *)

InitCache ==
    /\ InitStores
    /\ db_users = [u \in Identities |-> IF u = 1 THEN User("free", NoTime) ELSE NoUser]
    /\ redis_up = TRUE
    /\ redis_url_set \in BOOLEAN
    /\ settings \in {c \in SettingsSet :
                        /\ c.AI_CACHE_ENABLED /\ c.API_KEY_SET
                        /\ ~c.REQUIRED_CHANNEL_SET /\ ~c.AI_FALLBACK_ENABLED
                        /\ c.OPENAI_MODEL = GPT4}

\* the steps of the cache around a backend that answers the first attempt
Cache_Step(t) ==
    \/ GC_Client(t)
    \/ GC_RedisGet(t)
    \/ GC_Select(t)
    \/ GC_Commit(t)
    \/ GC_Repop(t)
    \/ Prov_Enter(t)
    \/ \E r \in Responses : Prov_Success(t, r, 1000)
    \/ PT_AfterProvider(t)
    \/ SC_Commit(t)
    \/ SC_Client(t)
    \/ SC_Setex(t)

\* one call of process_text at a time
NextCache ==
    \/ \E t \in Tasks, p \in Prompts :
          AllIdle /\ TaskFree(t) /\ calls < MaxCacheCalls /\ PT_Call(t, 1, p, <<>>)
    \/ \E t \in Tasks : Cache_Step(t)
    \/ \E t \in Tasks : PT_Done(t)
    \/ Tick
    \/ AllIdle /\ RedisFlip

SpecCache == InitCache /\ [][NextCache]_vars

----------------------------------------------------------------------------
(* Specification of the cache shared by the users: process_text is called  *)
(* with one text for either user, with a history or without one, one call  *)
(* at a time                                                               *)

InitShare ==
    /\ InitStores
    /\ db_users = [u \in Identities |-> User("free", NoTime)]
    /\ redis_up = TRUE
    /\ redis_url_set \in BOOLEAN
    /\ settings \in {c \in SettingsSet :
                        /\ c.AI_CACHE_ENABLED /\ c.API_KEY_SET
                        /\ ~c.REQUIRED_CHANNEL_SET /\ ~c.AI_FALLBACK_ENABLED
                        /\ c.AI_PROVIDER = "openai" /\ c.OPENAI_MODEL = GPT4}

NextShare ==
    \/ \E t \in Tasks, uid \in Identities, h \in Histories :
          /\ AllIdle /\ TaskFree(t) /\ calls < MaxStoreCalls
          /\ PT_Call(t, uid, "p1", h)
    \/ \E t \in Tasks : Cache_Step(t)
    \/ \E t \in Tasks : PT_Done(t)
    \/ AllIdle /\ Tick
    \/ AllIdle /\ RedisFlip

SpecShare == InitShare /\ [][NextShare]_vars

----------------------------------------------------------------------------
(* Specification of the stores of the cache: calls of process_text with    *)
(* one text, up to two of them at a time, around a backend that answers    *)
(* the first attempt with one response or another.  Caching is enabled or  *)
(* disabled by the configuration of the run; the tables and Redis outlive  *)
(* the runs, so a run with caching disabled may find entries of an earlier *)
(* run.  Redis goes down and comes back at any time; the clock is read     *)
(* between the calls.                                                      *)

\* the entry an earlier run left for text p1
OldEntries(row) == {EmptyStore, [x \in {HashPrompt("p1")} |-> row]}

InitStore ==
    /\ clock = 0
    /\ redis_client_obj = FALSE
    /\ redis_available = FALSE
    /\ redis_rate = EmptyStore
    /\ redis_sub = EmptyStore
    /\ db_conv = [u \in Identities |-> NoConv]
    /\ db_analytics = 0
    /\ pc = [t \in Tasks |-> "idle"]
    /\ loc = [t \in Tasks |-> InitLoc]
    /\ calls = 0
    /\ allowedLog = [k \in RateKeys |-> 0]
    /\ storeLog = EmptyStore
    /\ db_users = [u \in Identities |-> IF u = 1 THEN User("free", NoTime) ELSE NoUser]
    /\ redis_up = TRUE
    /\ redis_url_set = TRUE
    /\ settings \in {c \in SettingsSet :
                        /\ c.API_KEY_SET /\ ~c.REQUIRED_CHANNEL_SET
                        /\ ~c.AI_FALLBACK_ENABLED
                        /\ c.AI_PROVIDER = "openai" /\ c.OPENAI_MODEL = GPT4}
    /\ IF settings.AI_CACHE_ENABLED
       THEN db_cache = EmptyStore /\ redis_cache = EmptyStore
       ELSE /\ db_cache \in OldEntries([response |-> "r2", tokens_used |-> 1000,
                                        expires_at |-> AI_CACHE_TTL, hit_count |-> 0])
            /\ redis_cache \in OldEntries([val |-> "r2", exp |-> AI_CACHE_TTL])

NextStore ==
    \/ \E t \in Tasks :
          /\ calls < MaxStoreCalls
          /\ PT_Call(t, 1, "p1", <<>>)
    \/ \E t \in Tasks : Cache_Step(t)
    \/ \E t \in Tasks : PT_Done(t)
    \/ AllIdle /\ Tick
    \/ RedisFlip

SpecStore == InitStore /\ [][NextStore]_vars

----------------------------------------------------------------------------
(* services/ai_service.py: AIService.estimate_cost *)

\* ai_service.py:353-355: the token counts up to 50000 whose product, formed
\* in binary floating point, falls just short of a whole number of cents:
\* for 5500 tokens of gpt-4-turbo-preview it is 10.999999999999998
FloatShort(model) ==
    IF model = GPT4
    THEN {5500, 11000, 21500, 22000, 22500, 43000, 43500, 44000, 44500, 45000, 45500}
    ELSE {}

\* variant: a model without a price is charged like gpt-4-turbo-preview
EstimateCostAnyModel(tokens_used, model) ==
    CASE model = GPT35 -> tokens_used \div 10000
      [] model = GEMINI -> (tokens_used * 3) \div 80000
      [] OTHER -> (tokens_used * 20) \div 10000

\* ai_service.py:343-355: cents of tokens_used at the mean of the input and
\* the output price of the model, truncated by int(); 0 for a model without
\* a price
EstimateCost(tokens_used, model) ==
    CASE model = GPT4 -> IF tokens_used \in FloatShort(model)
                         THEN (tokens_used * 20) \div 10000 - 1
                         ELSE (tokens_used * 20) \div 10000
      [] model = GPT35 -> tokens_used \div 10000
      [] model = GEMINI -> (tokens_used * 3) \div 80000
      [] OTHER -> 0

----------------------------------------------------------------------------
(* Specification of estimate_cost: the function is applied to token counts  *)
(* and model names, two applications side by side                           *)

MaxTokenSteps == 11

\* token counts at the cent boundaries of the dearest model, just under
\* them, and further apart
TokenCounts ==
    {k * 500 + d : k \in 0..MaxTokenSteps, d \in {0, 499}}
      \cup {k * 2000 : k \in 0..MaxTokenSteps}

\* the models of the price table, the model names of cached results
\* (ai_service.py:309), the default of ai_result.get (messages.py:185) and a
\* model without a price
ModelNames == {GPT4, GPT35, GEMINI, "openai_cached", "google_cached", "", "gpt-4o"}

\* messages.py:183-186: estimate_cost(tokens_used, model) is called
EC_Call(t, tokens_used, model) ==
    /\ pc[t] = "idle"
    /\ pc' = [pc EXCEPT ![t] = "ec_ret"]
    /\ loc' = [loc EXCEPT ![t] =
                 [InitLoc EXCEPT !.result = [response |-> "",
                                             tokens_used |-> tokens_used,
                                             model |-> model],
                                 !.cost = EstimateCost(tokens_used, model)]]
    /\ UNCHANGED sharedVars

\* the caller has the number
EC_Done(t) ==
    /\ pc[t] = "ec_ret"
    /\ pc' = [pc EXCEPT ![t] = "idle"]
    /\ loc' = [loc EXCEPT ![t] = InitLoc]
    /\ UNCHANGED sharedVars

InitCost ==
    /\ InitStores
    /\ db_users = [u \in Identities |-> NoUser]
    /\ redis_up = TRUE
    /\ redis_url_set = FALSE
    /\ settings \in {c \in SettingsSet :
                        /\ c.AI_CACHE_ENABLED /\ c.API_KEY_SET /\ ~c.REQUIRED_CHANNEL_SET
                        /\ c.AI_FALLBACK_ENABLED /\ c.AI_PROVIDER = "openai"
                        /\ c.OPENAI_MODEL = GPT4}

NextCost ==
    \/ \E t \in Tasks, n \in TokenCounts, m \in ModelNames : EC_Call(t, n, m)
    \/ \E t \in Tasks : EC_Done(t)

SpecCost == InitCost /\ [][NextCost]_vars

----------------------------------------------------------------------------
(* The session of a request.  The AsyncSession of a request keeps one User  *)
(* object (identity map, expire_on_commit=False, connection.py): a select   *)
(* of a user the session already holds returns that object unrefreshed.     *)

\* the User object of the task's session
SessionUser(t) ==
    IF loc[t].user.exists THEN loc[t].user ELSE db_users[loc[t].user_id]

\* the UPDATE of a flush: the changed columns of the session's User object
Flush(t) ==
    [db_users EXCEPT ![loc[t].user_id] =
        [f \in DOMAIN @ |-> IF f \in loc[t].dirty THEN loc[t].user[f] ELSE @[f]]]

----------------------------------------------------------------------------
(* middleware/rate_limit.py, middleware/subscription.py,                   *)
(* services/channel_check.py                                               *)

\* the request is over: what the user was sent
Req_End(t, l, outcome, answer) ==
    /\ pc' = [pc EXCEPT ![t] = "done"]
    /\ loc' = [loc EXCEPT ![t] = [l EXCEPT !.outcome = outcome, !.answer = answer]]

\* main.py:69-104 and rate_limit.py:25-44: a text message of the user
\* enters the middlewares and check_rate_limit is called
MW_Call(t, uid, prompt) ==
    /\ pc[t] = "idle"
    /\ calls < MaxRequests
    /\ calls' = calls + 1
    /\ pc' = [pc EXCEPT ![t] = "rl_select"]
    /\ loc' = [loc EXCEPT ![t] =
                 [InitLoc EXCEPT !.user_id = uid, !.prompt = prompt,
                                 !.call = calls + 1,
                                 !.stages = <<"rate">>,
                                 !.start_user = db_users[uid],
                                 !.start_conv = db_conv[uid]]]
    /\ UNCHANGED <<clock, db_users, redis_up, redis_url_set, redis_client_obj,
                   redis_available, redis_rate, settings, db_conv, db_analytics,
                   db_cache, redis_cache, redis_sub, allowedLog, storeLog>>

\* rate_limit.py:60 and subscription.py:26-55: the next middleware runs;
\* check_subscription is called when a channel is configured, else the
\* handler
MW_Pass(t) ==
    IF settings.REQUIRED_CHANNEL_SET
    THEN /\ pc' = [pc EXCEPT ![t] = "cs_client"]
         /\ loc' = [loc EXCEPT ![t].gate_t0 = clock,
                               ![t].stages = Append(@, "gate")]
    ELSE /\ pc' = [pc EXCEPT ![t] = "h_select"]
         /\ UNCHANGED loc

\* variant: the answer of the rate limiter is not looked at
MW_RateLimitPass(t) ==
    /\ pc[t] = "rl_ret"
    /\ MW_Pass(t)
    /\ UNCHANGED sharedVars

\* rate_limit.py:46-60: a refused request is answered with the reason and
\* the handler is not called; an allowed one goes on
MW_RateLimit(t) ==
    /\ pc[t] = "rl_ret"
    /\ IF ~loc[t].allowed
       THEN Req_End(t, loc[t], "rate_denied", "rate_limit")
       ELSE MW_Pass(t)
    /\ UNCHANGED sharedVars

\* check_subscription returns (is_subscribed, error_message); src tells
\* which return statement it was: "redis" (line 47), "db" (line 74), "live"
\* (line 108) or "live_failed" (lines 113-115)
CS_Return(t, l, ok, src, msg) ==
    /\ pc' = [pc EXCEPT ![t] = "cs_ret"]
    /\ loc' = [loc EXCEPT ![t] = [l EXCEPT !.gate_ok = ok, !.gate_src = src,
                                           !.gate_msg = msg]]

\* channel_check.py:42-55
CS_AfterClient(t, has) ==
    /\ pc' = [pc EXCEPT ![t] = IF has /\ ~loc[t].force_check
                                THEN "cs_redis_get" ELSE "cs_select"]
    /\ loc' = [loc EXCEPT ![t].has_redis = has]

\* channel_check.py:41
CS_Client(t) ==
    /\ \/ \E has \in BOOLEAN :
             GrcReturns(t, "cs_client", "cs_ping", has) /\ CS_AfterClient(t, has)
       \/ GrcAwaits(t, "cs_client", "cs_ping")
    /\ UNCHANGED <<clock, db_users, redis_up, redis_url_set, redis_rate, settings,
                   db_conv, db_analytics, db_cache, redis_cache, redis_sub, calls,
                   allowedLog, storeLog>>

\* channel_check.py:43-49: GET channel_sub:<uid>; a value decides, an error
\* is ignored
CS_RedisGet(t) ==
    /\ pc[t] = "cs_redis_get"
    /\ IF redis_up /\ loc[t].user_id \in DOMAIN redis_sub
       THEN CS_Return(t, loc[t], redis_sub[loc[t].user_id].val = "1", "redis", "none")
       ELSE /\ pc' = [pc EXCEPT ![t] = "cs_select"]
            /\ UNCHANGED loc
    /\ UNCHANGED sharedVars

\* channel_check.py:59-61: the stored result is younger than the TTL
CheckFresh(user, now) ==
    /\ user.channel_checked_at # NoTime
    /\ now - user.channel_checked_at < CHANNEL_CHECK_CACHE_TTL

\* channel_check.py:52-74: the user is selected; a fresh stored result is
\* returned (after it is written to Redis, with a client)
CS_Select(t) ==
    /\ pc[t] = "cs_select"
    /\ LET user == SessionUser(t)
           l == [loc[t] EXCEPT !.user = user]
       IN  IF user.exists /\ ~l.force_check /\ CheckFresh(user, clock)
           THEN IF l.has_redis
                THEN /\ pc' = [pc EXCEPT ![t] = "cs_setex_db"]
                     /\ loc' = [loc EXCEPT ![t] = l]
                ELSE CS_Return(t, l, user.channel_subscribed, "db", "none")
           ELSE /\ pc' = [pc EXCEPT ![t] = "cs_api"]
                /\ loc' = [loc EXCEPT ![t] = l]
    /\ UNCHANGED sharedVars

\* variant: the outer except refuses
CS_SelectRaiseClosed(t) ==
    /\ pc[t] = "cs_select"
    /\ CS_Return(t, loc[t], FALSE, "error", "retry_later")
    /\ UNCHANGED sharedVars

\* channel_check.py:52-55 raises (the database fails): the outer except,
\* channel_check.py:117-120, returns (True, None)
CS_SelectRaise(t) ==
    /\ pc[t] = "cs_select"
    /\ CS_Return(t, loc[t], TRUE, "error", "none")
    /\ UNCHANGED sharedVars

\* SETEX channel_sub:<uid> CHANNEL_CHECK_CACHE_TTL "1" | "0", errors ignored
SubSetex(t, subscribed) ==
    IF redis_up
    THEN RedisSetex(redis_sub, loc[t].user_id, CHANNEL_CHECK_CACHE_TTL,
                    IF subscribed THEN "1" ELSE "0", clock)
    ELSE redis_sub

\* channel_check.py:64-74
CS_SetexDb(t) ==
    /\ pc[t] = "cs_setex_db"
    /\ redis_sub' = SubSetex(t, loc[t].user.channel_subscribed)
    /\ CS_Return(t, loc[t], loc[t].user.channel_subscribed, "db", "none")
    /\ UNCHANGED <<clock, db_users, redis_up, redis_url_set, redis_client_obj,
                   redis_available, redis_rate, settings, db_conv, db_analytics,
                   db_cache, redis_cache, calls, allowedLog, storeLog>>

\* variant: the result is set on the user, the time is not
CS_SetUserNoTime(l, subscribed) ==
    [l EXCEPT !.user.channel_subscribed = subscribed,
              !.dirty = @ \cup (IF l.user.channel_subscribed # subscribed
                                THEN {"channel_subscribed"} ELSE {})]

\* channel_check.py:103-106: the result and the time are set on the user
CS_SetUser(l, subscribed) ==
    [l EXCEPT !.user.channel_subscribed = subscribed,
              !.user.channel_checked_at = clock,
              !.dirty = @ \cup {"channel_checked_at"}
                          \cup (IF l.user.channel_subscribed # subscribed
                                THEN {"channel_subscribed"} ELSE {})]

\* channel_check.py:91-108: after get_chat_member answered
CS_AfterApi(t, l) ==
    IF l.user.exists
    THEN /\ pc' = [pc EXCEPT ![t] = "cs_commit"]
         /\ loc' = [loc EXCEPT ![t] = CS_SetUser(l, l.is_subscribed)]
    ELSE CS_Return(t, l, l.is_subscribed, "live", "none")

\* channel_check.py:82-100: Telegram tells the status of the user in the
\* channel
CS_Api(t, member) ==
    /\ pc[t] = "cs_api"
    /\ LET l == [loc[t] EXCEPT !.is_subscribed = member]
       IN  IF l.has_redis
           THEN /\ pc' = [pc EXCEPT ![t] = "cs_setex_api"]
                /\ loc' = [loc EXCEPT ![t] = l]
           ELSE CS_AfterApi(t, l)
    /\ UNCHANGED sharedVars

\* variant: a failed query refuses everybody
ApiFailureResultClosed(user) == FALSE

\* variant: a failed query lets everybody pass
ApiFailureResultOpen(user) == TRUE

\* channel_check.py:113: `user and user.channel_subscribed`
ApiFailureResult(user) == user.exists /\ user.channel_subscribed

\* channel_check.py:110-115: get_chat_member raises; a stored "subscribed"
\* lets the user pass, else the user is refused with the retry-later message
CS_ApiFailure(t) ==
    /\ pc[t] = "cs_api"
    /\ LET ok == ApiFailureResult(loc[t].user)
       IN  CS_Return(t, loc[t], ok, "live_failed",
                     IF ok THEN "none" ELSE "retry_later")
    /\ UNCHANGED sharedVars

\* channel_check.py:91-100
CS_SetexApi(t) ==
    /\ pc[t] = "cs_setex_api"
    /\ redis_sub' = SubSetex(t, loc[t].is_subscribed)
    /\ CS_AfterApi(t, loc[t])
    /\ UNCHANGED <<clock, db_users, redis_up, redis_url_set, redis_client_obj,
                   redis_available, redis_rate, settings, db_conv, db_analytics,
                   db_cache, redis_cache, calls, allowedLog, storeLog>>

\* channel_check.py:106-108: the commit writes the result and the time
CS_Commit(t) ==
    /\ pc[t] = "cs_commit"
    /\ db_users' = Flush(t)
    /\ CS_Return(t, [loc[t] EXCEPT !.dirty = {}], loc[t].is_subscribed, "live", "none")
    /\ UNCHANGED <<clock, redis_up, redis_url_set, redis_client_obj,
                   redis_available, redis_rate, settings, db_conv, db_analytics,
                   db_cache, redis_cache, redis_sub, calls, allowedLog, storeLog>>

\* subscription.py:57-72: the user who is not subscribed is sent the link
\* of the channel and the handler is not called
MW_Subscription(t) ==
    /\ pc[t] = "cs_ret"
    /\ IF ~loc[t].gate_ok
       THEN Req_End(t, loc[t], "gate_denied", "subscribe")
       ELSE /\ pc' = [pc EXCEPT ![t] = "h_select"]
            /\ UNCHANGED loc
    /\ UNCHANGED sharedVars

CS_Step(t) ==
    \/ CS_Client(t)
    \/ CS_RedisGet(t)
    \/ CS_Select(t)
    \/ CS_SetexDb(t)
    \/ \E member \in BOOLEAN : CS_Api(t, member)
    \/ CS_ApiFailure(t)
    \/ CS_SetexApi(t)
    \/ CS_Commit(t)

----------------------------------------------------------------------------
(* Specification of the subscription check: calls of check_subscription    *)
(* one after the other, for a user with a row and for one without; the     *)
(* clock runs during the calls, Telegram answers or fails, Redis goes down *)
(* and comes back between the calls                                        *)

\* subscription.py:50-55: the middleware calls check_subscription with
\* force_check=False
CS_Call(t, uid) ==
    /\ pc[t] = "idle"
    /\ calls < MaxGateCalls
    /\ calls' = calls + 1
    /\ pc' = [pc EXCEPT ![t] = "cs_client"]
    /\ loc' = [loc EXCEPT ![t] =
                 [InitLoc EXCEPT !.user_id = uid, !.call = calls + 1,
                                 !.gate_t0 = clock,
                                 !.start_user = db_users[uid]]]
    /\ UNCHANGED <<clock, db_users, redis_up, redis_url_set, redis_client_obj,
                   redis_available, redis_rate, settings, db_conv, db_analytics,
                   db_cache, redis_cache, redis_sub, allowedLog, storeLog>>

\* the caller has the answer and the locals of the call are gone
CS_Done(t) ==
    /\ pc[t] = "cs_ret"
    /\ pc' = [pc EXCEPT ![t] = "idle"]
    /\ loc' = [loc EXCEPT ![t] = InitLoc]
    /\ UNCHANGED sharedVars

InitGate ==
    /\ InitStores
    /\ db_users = [u \in Identities |-> IF u = 1 THEN User("free", NoTime) ELSE NoUser]
    /\ redis_up \in BOOLEAN
    /\ redis_url_set = TRUE
    /\ settings \in {c \in SettingsSet :
                        /\ c.REQUIRED_CHANNEL_SET /\ c.AI_CACHE_ENABLED /\ c.API_KEY_SET
                        /\ c.AI_FALLBACK_ENABLED /\ c.AI_PROVIDER = "openai"
                        /\ c.OPENAI_MODEL = GPT4}

NextGate ==
    \/ \E t \in Tasks, uid \in Identities : AllIdle /\ CS_Call(t, uid)
    \/ \E t \in Tasks : CS_Step(t)
    \/ \E t \in Tasks : CS_Done(t)
    \/ Tick
    \/ AllIdle /\ RedisFlip

SpecGate == InitGate /\ [][NextGate]_vars

----------------------------------------------------------------------------
(* Specification of the service called by any caller: check_subscription   *)
(* with force_check True or False, with REQUIRED_CHANNEL_ID set or empty;  *)
(* the select of the user may raise                                        *)

\* variant: the channel counts as configured whatever the settings say
ChannelConfiguredAlways(c) == TRUE

\* channel_check.py:19, 35: self.required_channel is truthy
ChannelConfigured(c) == c.REQUIRED_CHANNEL_SET

\* channel_check.py:22-37: without a channel the call returns (True, None)
\* at once; with one it goes on to the Redis client
CS_CallDirect(t, uid, force_check) ==
    /\ pc[t] = "idle"
    /\ calls < MaxGateCalls
    /\ calls' = calls + 1
    /\ LET l == [InitLoc EXCEPT !.user_id = uid, !.call = calls + 1,
                                !.gate_t0 = clock, !.force_check = force_check,
                                !.start_user = db_users[uid]]
       IN  IF ~ChannelConfigured(settings)
           THEN CS_Return(t, l, TRUE, "unconfigured", "none")
           ELSE /\ pc' = [pc EXCEPT ![t] = "cs_client"]
                /\ loc' = [loc EXCEPT ![t] = l]
    /\ UNCHANGED <<clock, db_users, redis_up, redis_url_set, redis_client_obj,
                   redis_available, redis_rate, settings, db_conv, db_analytics,
                   db_cache, redis_cache, redis_sub, allowedLog, storeLog>>

InitCheck ==
    /\ InitStores
    /\ db_users = [u \in Identities |-> IF u = 1 THEN User("free", NoTime) ELSE NoUser]
    /\ redis_up \in BOOLEAN
    /\ redis_url_set = TRUE
    /\ settings \in {c \in SettingsSet :
                        /\ c.AI_CACHE_ENABLED /\ c.API_KEY_SET
                        /\ c.AI_FALLBACK_ENABLED /\ c.AI_PROVIDER = "openai"
                        /\ c.OPENAI_MODEL = GPT4}

NextCheck ==
    \/ \E t \in Tasks, uid \in Identities, force_check \in BOOLEAN :
          AllIdle /\ CS_CallDirect(t, uid, force_check)
    \/ \E t \in Tasks : CS_Step(t)
    \/ \E t \in Tasks : CS_SelectRaise(t)
    \/ \E t \in Tasks : CS_Done(t)
    \/ AllIdle /\ Tick
    \/ AllIdle /\ RedisFlip

SpecCheck == InitCheck /\ [][NextCheck]_vars

----------------------------------------------------------------------------
(* handlers/messages.py: process_text_message *)

\* messages.py:56-80: check_user_limits
CheckUserLimits(user, now) ==
    IF IsPaid(user, now) THEN TRUE
    ELSE IF user.subscription_status = "trial"
         THEN user.trial_messages_used < user.trial_messages_limit
         ELSE user.free_messages_used < user.free_messages_limit

\* messages.py:110-121: the user is selected; without a row the user is sent
\* to /start, out of messages the user is told so
H_Select(t) ==
    /\ pc[t] = "h_select"
    /\ LET user == SessionUser(t)
           l == [loc[t] EXCEPT !.user = user]
       IN  IF ~user.exists
           THEN Req_End(t, l, "no_user", "start")
           ELSE IF ~CheckUserLimits(user, clock)
                THEN Req_End(t, l, "quota_denied", "limit")
                ELSE /\ pc' = [pc EXCEPT ![t] = "h_conv"]
                     /\ loc' = [loc EXCEPT ![t] = l]
    /\ UNCHANGED sharedVars

\* messages.py:23-53, 124: the active conversation of the user, a new one
\* when there is none
H_Conversation(t) ==
    /\ pc[t] = "h_conv"
    /\ LET conv == IF db_conv[loc[t].user_id].exists
                   THEN db_conv[loc[t].user_id] ELSE NewConv
       IN  /\ db_conv' = [db_conv EXCEPT ![loc[t].user_id] = conv]
           /\ loc' = [loc EXCEPT ![t].conv = conv]
    /\ pc' = [pc EXCEPT ![t] = "h_history"]
    /\ UNCHANGED <<clock, db_users, redis_up, redis_url_set, redis_client_obj,
                   redis_available, redis_rate, settings, db_analytics, db_cache,
                   redis_cache, redis_sub, calls, allowedLog, storeLog>>

\* messages.py:134-147: the last messages of the conversation, oldest first
ConversationHistory(conv) ==
    IF conv.rows = 0 THEN <<>>
    ELSE <<[role |-> "user", content |-> "p1"], [role |-> "assistant", content |-> "r1"]>>

\* messages.py:134-156: the history is selected and process_text is called
H_History(t) ==
    /\ pc[t] = "h_history"
    /\ PT_Begin(t, [loc[t] EXCEPT !.history = ConversationHistory(db_conv[loc[t].user_id])])
    /\ UNCHANGED sharedVars

\* messages.py:205-209: the tier counter the request is counted on
TierCounted(user) ==
    IF user.subscription_status = "trial" THEN {"trial_messages_used"}
    ELSE IF user.subscription_status = "free" THEN {"free_messages_used"}
    ELSE {}

\* messages.py:196-209: the totals of the user after the result
UserCharged(user, result) ==
    [f \in DOMAIN user |->
        IF f = "total_messages_sent" THEN user[f] + 1
        ELSE IF f = "total_tokens_used" THEN user[f] + result.tokens_used
        ELSE IF f = "total_cost_estimated"
             THEN user[f] + EstimateCost(result.tokens_used, result.model)
        ELSE IF f \in TierCounted(user) THEN user[f] + 1
        ELSE user[f]]

\* the columns UserCharged changed
Changed(old, new) == {f \in DOMAIN old : old[f] # new[f]}

\* variant: the except block is never entered
AIRaisedNever(l) == FALSE

\* messages.py:150-166, 228-232: process_text raised, or the objects of the
\* session were expired by the rollback of _save_cache (ai_service.py:130)
\* and the read of conversation.id raises outside a greenlet
AIRaised(l) == l.raised # "none" \/ l.session_expired

\* messages.py:158-211 and 228-232: process_text is over.  After an exception
\* the user is sent the failure message; else the two messages are added,
\* the counters of the conversation and of the user are raised and the
\* commit is awaited
H_AfterAI(t) ==
    /\ pc[t] = "pt_ret"
    /\ IF AIRaised(loc[t])
       THEN Req_End(t, loc[t], "failed", "error")
       ELSE LET user == UserCharged(loc[t].user, loc[t].result)
            IN  /\ pc' = [pc EXCEPT ![t] = "h_commit"]
                /\ loc' = [loc EXCEPT ![t].user = user,
                                      ![t].stages = @ \o <<"estimate", "record">>,
                                      ![t].dirty = @ \cup Changed(loc[t].user, user),
                                      ![t].conv.message_count = @ + 2,
                                      ![t].conv.rows = @ + 2]
    /\ UNCHANGED sharedVars

\* messages.py:211: the commit writes the messages, the conversation and the
\* changed columns of the user
H_Commit(t) ==
    /\ pc[t] = "h_commit"
    /\ db_users' = Flush(t)
    /\ db_conv' = [db_conv EXCEPT ![loc[t].user_id] = loc[t].conv]
    /\ pc' = [pc EXCEPT ![t] = "h_log"]
    /\ loc' = [loc EXCEPT ![t].dirty = {}]
    /\ UNCHANGED <<clock, redis_up, redis_url_set, redis_client_obj,
                   redis_available, redis_rate, settings, db_analytics, db_cache,
                   redis_cache, redis_sub, calls, allowedLog, storeLog>>

\* messages.py:211 and 228-232: the commit raises; the except block sends
\* the failure message and the response is not sent
H_CommitRaise(t) ==
    /\ pc[t] = "h_commit"
    /\ Req_End(t, [loc[t] EXCEPT !.acct_failed = TRUE], "failed", "error")
    /\ UNCHANGED sharedVars

\* messages.py:214-223 and analytics.py:18-49: the event is logged
H_LogEvent(t) ==
    /\ pc[t] = "h_log"
    /\ db_analytics' = db_analytics + 1
    /\ pc' = [pc EXCEPT ![t] = "h_answer"]
    /\ UNCHANGED <<clock, db_users, redis_up, redis_url_set, redis_client_obj,
                   redis_available, redis_rate, settings, db_conv, db_cache,
                   redis_cache, redis_sub, loc, calls, allowedLog, storeLog>>

\* messages.py:226: the response is sent to the user
H_Answer(t) ==
    /\ pc[t] = "h_answer"
    /\ Req_End(t, loc[t], "answered", loc[t].result.response)
    /\ UNCHANGED sharedVars

\* the update is handled; the session of the request is closed
Req_Done(t) ==
    /\ pc[t] = "done"
    /\ pc' = [pc EXCEPT ![t] = "idle"]
    /\ loc' = [loc EXCEPT ![t] = InitLoc]
    /\ UNCHANGED sharedVars

H_Step(t) ==
    \/ H_Select(t)
    \/ H_Conversation(t)
    \/ H_History(t)
    \/ H_AfterAI(t)
    \/ H_Commit(t)
    \/ H_LogEvent(t)
    \/ H_Answer(t)

----------------------------------------------------------------------------
(* Specification of the pipeline: one request at a time, each within one   *)
(* minute of the clock and with the same text; the database answers, Redis *)
(* is up or down for the whole of a request, the backend and Telegram may  *)
(* fail                                                                    *)

\* the user of the pipeline: free, on trial or paid until SubExpiry
InitPipelineUsers ==
    {[u \in Identities |-> IF u = 1 THEN r ELSE NoUser] :
        r \in {User("free", NoTime), User("trial", NoTime), User("active", SubExpiry)}}

\* process_text in the pipeline: the cache and the backend, which answers
\* or fails at every attempt
Pipe_AI(t) ==
    \/ GC_Client(t)
    \/ GC_RedisGet(t)
    \/ GC_Select(t)
    \/ GC_Commit(t)
    \/ GC_Repop(t)
    \/ Prov_Enter(t)
    \/ Prov_Success(t, "r1", 1000)
    \/ Prov_Failure(t)
    \/ Prov_Sleep(t)
    \/ Prov_FallbackSuccess(t, "r2", 1000)
    \/ Prov_FallbackFailure(t)
    \/ PT_AfterProvider(t)
    \/ SC_Commit(t)
    \/ SC_Client(t)
    \/ SC_Setex(t)

Init ==
    /\ InitStores
    /\ db_users \in InitPipelineUsers
    /\ redis_up = TRUE
    /\ redis_url_set \in BOOLEAN
    /\ settings \in {c \in SettingsSet :
                        /\ c.AI_CACHE_ENABLED /\ c.API_KEY_SET
                        /\ c.AI_FALLBACK_ENABLED
                        /\ c.AI_PROVIDER = "openai" /\ c.OPENAI_MODEL = GPT4}

Next ==
    \/ \E t \in Tasks, uid \in Identities :
          AllIdle /\ TaskFree(t) /\ MW_Call(t, uid, "p1")
    \/ \E t \in Tasks : RL_Body(t)
    \/ \E t \in Tasks : MW_RateLimit(t)
    \/ \E t \in Tasks : CS_Step(t)
    \/ \E t \in Tasks : MW_Subscription(t)
    \/ \E t \in Tasks : H_Step(t)
    \/ \E t \in Tasks : Pipe_AI(t)
    \/ \E t \in Tasks : Req_Done(t)
    \/ AllIdle /\ Tick
    \/ AllIdle /\ RedisFlip

Spec == Init /\ [][Next]_vars

----------------------------------------------------------------------------
(* Specification of the handler: process_text_message called for updates   *)
(* the middlewares let through, one at a time; the backend answers the     *)
(* first attempt and the commit of the handler may fail                    *)

\* main.py:92-104: the update reaches the handler of text messages
H_Call(t, uid, prompt) ==
    /\ pc[t] = "idle"
    /\ calls < MaxRequests
    /\ calls' = calls + 1
    /\ pc' = [pc EXCEPT ![t] = "h_select"]
    /\ loc' = [loc EXCEPT ![t] =
                 [InitLoc EXCEPT !.user_id = uid, !.prompt = prompt,
                                 !.call = calls + 1,
                                 !.start_user = db_users[uid],
                                 !.start_conv = db_conv[uid]]]
    /\ UNCHANGED <<clock, db_users, redis_up, redis_url_set, redis_client_obj,
                   redis_available, redis_rate, settings, db_conv, db_analytics,
                   db_cache, redis_cache, redis_sub, allowedLog, storeLog>>

InitHandler ==
    /\ InitStores
    /\ db_users \in InitPipelineUsers
    /\ redis_up = TRUE
    /\ redis_url_set \in BOOLEAN
    /\ settings \in {c \in SettingsSet :
                        /\ c.AI_CACHE_ENABLED /\ c.API_KEY_SET
                        /\ c.AI_FALLBACK_ENABLED /\ ~c.REQUIRED_CHANNEL_SET
                        /\ c.AI_PROVIDER = "openai" /\ c.OPENAI_MODEL = GPT4}

NextHandler ==
    \/ \E t \in Tasks, uid \in Identities :
          AllIdle /\ TaskFree(t) /\ H_Call(t, uid, "p1")
    \/ \E t \in Tasks : H_Step(t)
    \/ \E t \in Tasks : H_CommitRaise(t)
    \/ \E t \in Tasks : Cache_Step(t)
    \/ \E t \in Tasks : Req_Done(t)
    \/ AllIdle /\ Tick
    \/ AllIdle /\ RedisFlip

SpecHandler == InitHandler /\ [][NextHandler]_vars

----------------------------------------------------------------------------
(* Specification of concurrent requests: two text messages of one user are *)
(* handled at the same time, each in a session of its own, interleaved at  *)
(* every await; the cache is disabled, Redis is not configured and the     *)
(* backend answers                                                         *)

InitConc ==
    /\ InitStores
    /\ db_users \in InitPipelineUsers
    /\ redis_up = TRUE
    /\ redis_url_set = FALSE
    /\ settings \in {c \in SettingsSet :
                        /\ ~c.AI_CACHE_ENABLED /\ c.API_KEY_SET
                        /\ ~c.AI_FALLBACK_ENABLED /\ ~c.REQUIRED_CHANNEL_SET
                        /\ c.AI_PROVIDER = "openai" /\ c.OPENAI_MODEL = GPT4}

NextConc ==
    \/ \E t \in Tasks : H_Call(t, 1, "p1")
    \/ \E t \in Tasks : H_Step(t)
    \/ \E t \in Tasks : Prov_Enter(t)
    \/ \E t \in Tasks, n \in ReportedTokens : Prov_Success(t, "r1", n)
    \/ \E t \in Tasks : PT_AfterProvider(t)
    \/ \E t \in Tasks : Req_Done(t)

SpecConc == InitConc /\ [][NextConc]_vars

----------------------------------------------------------------------------
(* Properties of the rate limiter *)

\* the task holds a result of check_rate_limit decided on the counters
Decided(t) == pc[t] = "rl_ret" /\ loc[t].path = "redis"

\* Allowed results so far in the window of granularity g of the task's call
AllowedIn(t, g) == allowedLog[LogKey(loc[t].user_id, g, loc[t].now)]

\* the call of the task began and ended inside one window of granularity g
InWindow(t, g) == Window(g, clock) = Window(g, loc[t].now)

\* C1: calls made one after another with the counter store reachable: a call
\* made inside one window is Allowed only while fewer than threshold calls
\* were Allowed before it in that window (so at most threshold are Allowed
\* per window and the (threshold+1)-th is Denied), and a call is Denied only
\* for a window that already holds threshold Allowed calls.
C1_SequentialThreshold ==
    \A t \in Tasks :
        Decided(t) =>
            /\ loc[t].allowed =>
                  \A g \in Grans : InWindow(t, g) => AllowedIn(t, g) <= loc[t].per[g]
            /\ ~loc[t].allowed =>
                  \E g \in Grans : loc[t].reason = g /\ AllowedIn(t, g) >= loc[t].per[g]

\* free tier: RATE_LIMIT_FREE_PER_MINUTE calls of one minute were Allowed and
\* the next one is Denied as rate-limited by the minute
C1_Witness ==
    \E t \in Tasks :
        /\ Decided(t)
        /\ ~loc[t].allowed
        /\ loc[t].reason = "minute"
        /\ loc[t].per = Limits(FALSE)
        /\ AllowedIn(t, "minute") = RATE_LIMIT_FREE_PER_MINUTE

\* C2: under concurrent calls of one identity, whatever the interleaving of
\* their reads and increments, the number of Allowed calls made inside one
\* window never exceeds the threshold of the call's tier.
C2_NoOverAdmission ==
    \A t \in Tasks :
        Decided(t) /\ loc[t].allowed =>
            \A g \in Grans : InWindow(t, g) => AllowedIn(t, g) <= loc[t].per[g]

\* C3: no increment is lost: with the counter store reachable each counter of
\* a current window equals the number of Allowed calls of that window (the
\* key is absent when there were none).
C3_CountersMatchAllowed ==
    \A u \in Identities, g \in Grans :
        RedisGet(redis_rate, <<u, g, Window(g, clock)>>) =
            IF allowedLog[LogKey(u, g, clock)] = 0
            THEN NoVal
            ELSE allowedLog[LogKey(u, g, clock)]

\* two interleaved calls both passed the checks and both increments are in
\* the counter: it stands above the free threshold
C3_Witness ==
    /\ db_users[1].subscription_status = "free"
    /\ allowedLog[LogKey(1, "minute", clock)] > RATE_LIMIT_FREE_PER_MINUTE
    /\ RedisGet(redis_rate, RateKey(1, "minute", clock))
          = allowedLog[LogKey(1, "minute", clock)]

\* the counters the task's call has read so far
HasRead(t, g) == loc[t].path \in {"none", "redis"} /\ loc[t].counts[g] # Unread

\* C4: calls made one after another: the count read for a granularity is the
\* number of Allowed calls of the call's own window, nothing when there were
\* none, whatever the windows before it held; so the first call of a new
\* minute is Allowed when its hour and day windows are below their thresholds.
C4_RolloverResets ==
    \A t \in Tasks :
        /\ \A g \in Grans :
              HasRead(t, g) /\ AllowedIn(t, g) = 0 => loc[t].counts[g] = NoVal
        /\ ( /\ Decided(t)
             /\ loc[t].counts["minute"] = NoVal
             /\ \A g \in {"hour", "day"} :
                   AllowedIn(t, g) - (IF loc[t].allowed THEN 1 ELSE 0) < loc[t].per[g] )
           => loc[t].allowed

\* the minute before held threshold Allowed calls and the first call of the
\* new minute is Allowed
C4_Witness ==
    \E t \in Tasks :
        /\ Decided(t)
        /\ loc[t].allowed
        /\ loc[t].now > 0
        /\ allowedLog[LogKey(loc[t].user_id, "minute", loc[t].now - 1)] >= loc[t].per["minute"]
        /\ loc[t].counts["minute"] = NoVal
        /\ AllowedIn(t, "minute") = 1

\* C5: a call that found no counter store, or whose read or increment
\* raised, returns Allowed when the identity has a user record.
C5_FailOpen ==
    \A t \in Tasks :
        pc[t] = "rl_ret" /\ loc[t].fault /\ loc[t].user.exists => loc[t].allowed

\* a read raised after the minute counter had been read
C5_Witness ==
    \E t \in Tasks :
        /\ pc[t] = "rl_ret"
        /\ loc[t].fault
        /\ loc[t].user.exists
        /\ loc[t].has_redis
        /\ loc[t].counts["minute"] # Unread
        /\ loc[t].allowed

----------------------------------------------------------------------------
(* Properties of the provider client *)

\* C10: when every call of the backend fails, the client makes exactly
\* AI_MAX_RETRIES retries after the first attempt, that is AI_MAX_RETRIES + 1
\* attempts of the configured model, never more; without a configured
\* fallback no further attempt is made and the failure is raised to the caller
C10_ExactRetries ==
    \A t \in Tasks :
        /\ loc[t].tries <= AI_MAX_RETRIES + 1
        /\ loc[t].retry_count <= AI_MAX_RETRIES
        /\ pc[t] = "prov_fb_await" => FallbackConfigured
        /\ pc[t] = "prov_ret" /\ ApiKeySet /\ loc[t].raised # "none" =>
              /\ loc[t].tries = AI_MAX_RETRIES + 1
              /\ loc[t].retry_count = AI_MAX_RETRIES
              /\ loc[t].early = 0 => loc[t].attempts = AI_MAX_RETRIES + 1
              /\ ~FallbackConfigured => loc[t].fb_attempts = 0
        /\ pc[t] = "prov_ret" /\ ApiKeySet /\ ~FallbackConfigured
             /\ loc[t].tries = AI_MAX_RETRIES + 1 /\ loc[t].result = NoResult =>
              loc[t].raised # "none"

C10_Witness ==
    \E t \in Tasks :
        /\ pc[t] = "prov_ret"
        /\ ~FallbackConfigured
        /\ loc[t].raised = "BackendError"
        /\ loc[t].early = 0
        /\ loc[t].attempts = AI_MAX_RETRIES + 1
        /\ Len(loc[t].waits) = AI_MAX_RETRIES

\* C11: once the rounds of the primary model are used up, a fallback that is
\* enabled with a fallback model other than the current model gets exactly
\* one call, never a second one, for the selected backend: its answer is
\* returned, its failure is raised to the caller; with the fallback disabled
\* or the models equal no fallback call is made
C11_FallbackOnce ==
    \A t \in Tasks :
        /\ loc[t].fb_attempts <= 1
        /\ loc[t].fb_attempts = 1 =>
              settings.AI_FALLBACK_ENABLED /\ PrimaryModel # AI_FALLBACK_MODEL
        /\ pc[t] = "prov_ret" /\ loc[t].fb_attempts = 1 /\ loc[t].raised = "none" =>
              loc[t].result.model = AI_FALLBACK_MODEL
        /\ pc[t] = "prov_ret" /\ ApiKeySet /\ loc[t].raised # "none"
             /\ settings.AI_FALLBACK_ENABLED /\ PrimaryModel # AI_FALLBACK_MODEL =>
              /\ loc[t].fb_attempts = 1
              /\ loc[t].raised = "BackendError"

----------------------------------------------------------------------------
(* Properties of the response cache *)

\* the lookup of the task's call is over
LookedUp(t) == loc[t].lookup # "none"

\* the lookup of the task's call was a Hit
IsHit(t) == loc[t].lookup \in {"volatile", "durable"}

\* C8: with caching enabled, once a store of response r under a fingerprint
\* has returned, a later lookup of that fingerprint that ends strictly before
\* the expires-at of the new entry is a Hit with r, whatever the two tiers
\* held for the fingerprint before the store
C8_StoreThenHit ==
    \A t \in Tasks :
        LookedUp(t) /\ Fp(t) \in DOMAIN storeLog =>
            LET st == storeLog[Fp(t)]
            IN  st.call < loc[t].call /\ loc[t].lookup_t1 < st.exp =>
                    /\ IsHit(t)
                    /\ loc[t].result.response = st.response

\* C9: a lookup that begins at or after the expires-at of the durable entry
\* of the fingerprint is a Miss, whichever tier is asked
C9_ExpiredIsMiss ==
    \A t \in Tasks :
        LookedUp(t) /\ Fp(t) \in DOMAIN db_cache
          /\ db_cache[Fp(t)].expires_at <= loc[t].lookup_t0 =>
            ~IsHit(t)

----------------------------------------------------------------------------
(* Properties of the accounting *)

\* the request of the task is over
Over(t) == pc[t] = "done"

\* the row of the task's user
Row(t) == db_users[loc[t].user_id]

\* the usage totals of a user
UsageTotals ==
    {"total_messages_sent", "total_tokens_used", "total_cost_estimated",
     "free_messages_used", "trial_messages_used"}

\* the usage totals of the user and the message count of the conversation are
\* what they were when the request came in
Uncharged(t) ==
    /\ \A f \in UsageTotals : Row(t)[f] = loc[t].start_user[f]
    /\ db_conv[loc[t].user_id].message_count = loc[t].start_conv.message_count

\* C6: a request answered from the cache leaves the free and the trial
\* counter of the user as they were; a request answered by the backend
\* raises the counter of the user's tier by exactly one
C6_CachedNotCounted ==
    \A t \in Tasks :
        Over(t) /\ loc[t].outcome = "answered" =>
            LET was == loc[t].start_user
                tier == IF loc[t].from_cache THEN {}
                        ELSE IF was.subscription_status = "trial" THEN {"trial_messages_used"}
                        ELSE IF was.subscription_status = "free" THEN {"free_messages_used"}
                        ELSE {}
            IN  \A f \in {"free_messages_used", "trial_messages_used"} :
                    Row(t)[f] = was[f] + (IF f \in tier THEN 1 ELSE 0)

\* C7: a request refused by the rate limiter, by the subscription check or
\* for want of messages, or whose backend call failed after the retries and
\* the fallback, changes no usage total of the user and not the message count
\* of the conversation, and the user is sent a refusal or the failure message
C7_RefusedNotCharged ==
    \A t \in Tasks :
        Over(t) /\ (\/ loc[t].outcome \in {"rate_denied", "gate_denied", "quota_denied"}
                    \/ loc[t].raised # "none") =>
            /\ Uncharged(t)
            /\ loc[t].answer \in {"rate_limit", "subscribe", "limit", "error"}

C7_Witness ==
    \E t \in Tasks :
        /\ Over(t)
        /\ loc[t].raised = "BackendError"
        /\ loc[t].tries = AI_MAX_RETRIES + 1
        /\ loc[t].fb_attempts = 1
        /\ loc[t].answer = "error"
        /\ loc[t].start_user.total_messages_sent > 0
        /\ Uncharged(t)

----------------------------------------------------------------------------
(* Properties of the subscription check *)

\* C12: a call of check_subscription (channel configured, force_check
\* false) answers from a cache, Redis or the user's row alike, only if less
\* than CHANNEL_CHECK_CACHE_TTL has passed between the user's last live check
\* (channel_checked_at) and the call; once the TTL or more has passed the
\* call asks Telegram
C12_CachedOnlyWithinTtl ==
    \A t \in Tasks :
        pc[t] = "cs_ret" /\ loc[t].gate_src \in {"redis", "db"}
          /\ db_users[loc[t].user_id].exists =>
            CheckFresh(db_users[loc[t].user_id], loc[t].gate_t0)

\* C13: when get_chat_member fails and the result stored for the user is
\* "subscribed", check_subscription returns True, whatever the age of the
\* stored result
C13_StaleSatisfiedPasses ==
    \A t \in Tasks :
        pc[t] = "cs_ret" /\ loc[t].gate_src = "live_failed"
          /\ loc[t].start_user.exists /\ loc[t].start_user.channel_subscribed =>
            loc[t].gate_ok /\ loc[t].gate_msg = "none"

\* the query fails for a user whose stored "subscribed" is at least two TTLs
\* old, and the user passes
C13_Witness ==
    \E t \in Tasks :
        /\ pc[t] = "cs_ret" /\ loc[t].gate_src = "live_failed"
        /\ loc[t].start_user.exists /\ loc[t].start_user.channel_subscribed
        /\ loc[t].gate_t0 - loc[t].start_user.channel_checked_at
             >= 2 * CHANNEL_CHECK_CACHE_TTL
        /\ loc[t].gate_ok

\* C14: when get_chat_member fails and no result is stored for the user, or
\* the stored result is "not subscribed", check_subscription returns False
\* with the retry-later message; a user whose row was never checked does
\* not pass without an answer of Telegram
C14_UnverifiedRefused ==
    \A t \in Tasks :
        /\ pc[t] = "cs_ret" /\ loc[t].gate_src = "live_failed"
             /\ ~(loc[t].start_user.exists /\ loc[t].start_user.channel_subscribed) =>
              ~loc[t].gate_ok /\ loc[t].gate_msg = "retry_later"
        /\ pc[t] = "cs_ret" /\ loc[t].gate_src # "live" /\ loc[t].start_user.exists
             /\ loc[t].start_user.channel_checked_at = NoTime =>
              ~loc[t].gate_ok

\* the query fails for a user who was never checked, and the user is refused
C14_Witness ==
    \E t \in Tasks :
        /\ pc[t] = "cs_ret" /\ loc[t].gate_src = "live_failed"
        /\ loc[t].start_user.exists
        /\ loc[t].start_user.channel_checked_at = NoTime
        /\ ~loc[t].gate_ok /\ loc[t].gate_msg = "retry_later"

----------------------------------------------------------------------------
(* Properties of the pipeline *)

\* the place of a stage in the order of the pipeline
StageRank(stage) ==
    CASE stage = "rate" -> 1
      [] stage = "gate" -> 2
      [] stage = "lookup" -> 3
      [] stage = "provider" -> 4
      [] stage = "store" -> 5
      [] stage = "estimate" -> 6
      [] stage = "record" -> 7

\* the stages of the request of task t so far
Ran(t, stage) == \E i \in DOMAIN loc[t].stages : loc[t].stages[i] = stage

\* C15: the stages of a request run in the order rate limiter, subscription
\* check, cache lookup, backend call (after a cache miss only), cache store,
\* cost estimate, usage record; a stage that refuses or fails ends the
\* request: the backend is never called for a request the rate limiter or the
\* subscription check refused and no stage runs after a refusal or a failure
C15_StageOrder ==
    \A t \in Tasks :
        LET s == loc[t].stages
        IN  /\ \A i, j \in DOMAIN s : i < j => StageRank(s[i]) < StageRank(s[j])
            /\ Ran(t, "gate") => loc[t].allowed
            /\ Ran(t, "lookup") =>
                  /\ Ran(t, "rate") /\ loc[t].allowed
                  /\ settings.REQUIRED_CHANNEL_SET => Ran(t, "gate") /\ loc[t].gate_ok
            /\ Ran(t, "provider") => Ran(t, "lookup") /\ loc[t].lookup = "miss"
            /\ Ran(t, "store") => Ran(t, "provider") /\ loc[t].raised = "none"
            /\ Ran(t, "record") =>
                  /\ Ran(t, "estimate") /\ Ran(t, "lookup")
                  /\ loc[t].from_cache \/ Ran(t, "store")
                  /\ loc[t].from_cache => ~Ran(t, "provider")
            /\ loc[t].outcome = "rate_denied" => s = <<"rate">> /\ loc[t].tries = 0
            /\ loc[t].outcome = "gate_denied" => s = <<"rate", "gate">> /\ loc[t].tries = 0
            /\ loc[t].raised # "none" => s[Len(s)] = "provider"

\* a request that was let through, missed the cache and was answered ran
\* every stage
C15_Witness ==
    \E t \in Tasks :
        /\ Over(t) /\ loc[t].outcome = "answered"
        /\ loc[t].stages = <<"rate", "gate", "lookup", "provider", "store",
                             "estimate", "record">>

\* C16: no failure of a cache tier ends a request with an error: whenever
\* the lookup ran, the backend (if called) did not raise and the accounting
\* was written, the user is sent the response
C16_CacheFailureHarmless ==
    \A t \in Tasks :
        Over(t) /\ Ran(t, "lookup") /\ loc[t].raised = "none" /\ ~loc[t].acct_failed =>
            loc[t].outcome = "answered" /\ loc[t].answer = loc[t].result.response

\* C17: when the commit of the usage accounting fails after process_text
\* returned a response, the user is still sent the response
C17_AccountingFailureHarmless ==
    \A t \in Tasks :
        Over(t) /\ loc[t].acct_failed =>
            loc[t].outcome = "answered" /\ loc[t].answer = loc[t].result.response

----------------------------------------------------------------------------
(* Properties of the stores of the cache *)

\* C18: with caching disabled every lookup is a Miss, whatever was stored
\* and looked up before and whatever the tiers hold, and no step of a call
\* changes the table or Redis (whose keys may still expire as time passes)
C18_DisabledCacheInert ==
    /\ [](~settings.AI_CACHE_ENABLED => \A t \in Tasks : LookedUp(t) => loc[t].lookup = "miss")
    /\ [][~settings.AI_CACHE_ENABLED =>
            /\ db_cache' = db_cache
            /\ redis_cache' = redis_cache \/ redis_cache' = Purge(redis_cache, clock')]_vars

\* caching is disabled, both tiers hold a live entry of the text, and a call
\* that missed has the answer of the backend
C18_Witness ==
    \E t \in Tasks :
        /\ ~settings.AI_CACHE_ENABLED
        /\ pc[t] = "pt_ret" /\ loc[t].lookup = "miss" /\ Ran(t, "store")
        /\ loc[t].result.response = "r1"
        /\ Fp(t) \in DOMAIN db_cache /\ RowValid(db_cache[Fp(t)], clock)
        /\ db_cache[Fp(t)].response = "r2"
        /\ Fp(t) \in DOMAIN redis_cache

\* a store of the cache is under way
Storing(t) == pc[t] \in {"sc_commit", "sc_client", "sc_ping", "sc_setex"}

\* C19: after the stores of a fingerprint have returned, one after the other
\* or overlapping, both tiers hold the response of the store that came last:
\* until its expires-at the row of the table has that response, and so has
\* the Redis key if there is one
C19_LastStoreWins ==
    \A fp \in DOMAIN storeLog :
        /\ settings.AI_CACHE_ENABLED
        /\ \A t \in Tasks : ~Storing(t)
        /\ storeLog[fp].exp > clock
        => /\ fp \in DOMAIN db_cache
           /\ db_cache[fp].response = storeLog[fp].response
           /\ fp \in DOMAIN redis_cache =>
                 redis_cache[fp].val = storeLog[fp].response

\* C20: a store writes the row of the table whether or not Redis can be
\* written, and a failed write to Redis is swallowed: after a store whose
\* write to Redis failed, or had no client, the row is in the table with the
\* stored response, and a lookup that begins after the store and ends before
\* the row's expires_at is a Hit with that response
C20_DurableWithoutVolatile ==
    /\ \A fp \in DOMAIN storeLog :
          storeLog[fp].volatile \in {"failed", "no_client"} =>
              /\ fp \in DOMAIN db_cache
              /\ db_cache[fp].response = storeLog[fp].response
              /\ db_cache[fp].expires_at = storeLog[fp].exp
    /\ \A t \in Tasks :
          LookedUp(t) /\ loc[t].prior_store.volatile \in {"failed", "no_client"}
            /\ loc[t].lookup_t1 < loc[t].prior_store.exp =>
              IsHit(t) /\ loc[t].result.response = loc[t].prior_store.response

\* the SETEX of a store failed, and a later lookup is answered from the
\* table a minute or more after the store
C20_Witness ==
    \E t \in Tasks :
        /\ pc[t] = "pt_ret" /\ loc[t].prior_store.volatile = "failed"
        /\ loc[t].lookup = "durable"
        /\ loc[t].lookup_t1 = loc[t].prior_store.exp - 1
        /\ loc[t].result.response = loc[t].prior_store.response

----------------------------------------------------------------------------
(* Properties of the lookup of the cache *)

\* C21: a lookup asks Redis first and the table only after Redis had no
\* value; after a Hit from the table with Redis available the Redis key
\* holds the response of the row for the time left until the row's
\* expires_at, never longer, and the row's hit_count is one higher than
\* before the lookup
C21_RepopulateRemaining ==
    \A t \in Tasks :
        /\ loc[t].tiers \in {<<>>, <<"volatile">>, <<"durable">>,
                             <<"volatile", "durable">>}
        /\ loc[t].has_redis /\ loc[t].tiers # <<>> => loc[t].tiers[1] = "volatile"
        /\ loc[t].lookup = "volatile" => loc[t].tiers = <<"volatile">>
        /\ pc[t] = "pt_ret" /\ loc[t].lookup = "durable" =>
              /\ db_cache[Fp(t)].hit_count = loc[t].prior_hits + 1
              /\ loc[t].has_redis /\ redis_up =>
                    /\ clock < loc[t].entry.expires_at => Fp(t) \in DOMAIN redis_cache
                    /\ Fp(t) \in DOMAIN redis_cache =>
                          /\ redis_cache[Fp(t)].val = loc[t].entry.response
                          /\ redis_cache[Fp(t)].exp <= loc[t].entry.expires_at

\* C22: every lookup that is a Hit, from Redis or from the table, raises the
\* hit_count of the fingerprint's row by exactly one
C22_EveryHitCounted ==
    \A t \in Tasks :
        pc[t] = "pt_ret" /\ IsHit(t) =>
            /\ Fp(t) \in DOMAIN db_cache
            /\ db_cache[Fp(t)].hit_count = loc[t].prior_hits + 1

\* C23: after get_chat_member answered, the row of the user holds the answer
\* and a channel_checked_at taken during the call, whether Redis has a
\* client or not and whether its SETEX worked or not; with Redis available
\* the key holds the same answer until it expires
C23_LiveResultPersisted ==
    \A t \in Tasks :
        pc[t] = "cs_ret" /\ loc[t].gate_src = "live"
          /\ db_users[loc[t].user_id].exists =>
            LET u == db_users[loc[t].user_id]
            IN  /\ u.channel_subscribed = loc[t].gate_ok
                /\ u.channel_checked_at >= loc[t].gate_t0
                /\ u.channel_checked_at <= clock
                /\ loc[t].has_redis /\ redis_up
                     /\ clock < u.channel_checked_at + CHANNEL_CHECK_CACHE_TTL =>
                      /\ loc[t].user_id \in DOMAIN redis_sub
                      /\ redis_sub[loc[t].user_id].val =
                            (IF loc[t].gate_ok THEN "1" ELSE "0")

\* Telegram said "member" for a user stored as not subscribed while the
\* SETEX failed, and the row has the new answer with the time of the call
C23_Witness ==
    \E t \in Tasks :
        /\ pc[t] = "cs_ret" /\ loc[t].gate_src = "live"
        /\ loc[t].has_redis /\ ~redis_up
        /\ loc[t].start_user.exists /\ ~loc[t].start_user.channel_subscribed
        /\ loc[t].gate_t0 > 0
        /\ db_users[loc[t].user_id].channel_subscribed
        /\ db_users[loc[t].user_id].channel_checked_at >= loc[t].gate_t0


----------------------------------------------------------------------------
(* Properties of the service without a channel *)

\* C24: with REQUIRED_CHANNEL_ID empty, a call of check_subscription, for
\* every user and force_check True or False, returns True without a message
\* in one step: no Redis client is asked for, no key and no row is read,
\* Telegram is not asked, and the database, Redis and the client object are
\* as they were
C24_NoChannelNoEffect ==
    [][\A t \in Tasks :
         pc[t] = "idle" /\ pc'[t] # "idle" /\ ~settings.REQUIRED_CHANNEL_SET =>
           /\ pc'[t] = "cs_ret"
           /\ loc'[t].gate_ok /\ loc'[t].gate_msg = "none"
           /\ loc'[t].gate_src = "unconfigured"
           /\ loc'[t].user = InitLoc.user
           /\ UNCHANGED <<clock, db_users, redis_up, redis_client_obj,
                          redis_available, redis_rate, redis_sub, redis_cache,
                          db_cache, db_conv, db_analytics, settings>>]_vars

\* a forced check of a user without a row returned True with no channel
\* configured
C24_Witness ==
    \E t \in Tasks :
        /\ pc[t] = "cs_ret" /\ ~settings.REQUIRED_CHANNEL_SET
        /\ loc[t].force_check /\ ~db_users[loc[t].user_id].exists
        /\ loc[t].gate_ok /\ loc[t].gate_src = "unconfigured"
        /\ redis_sub = EmptyStore /\ ~redis_available


----------------------------------------------------------------------------
(* Properties of the counters of the rate limiter, continued *)

\* C25: a call that is allowed on the Redis path raises the minute, hour and
\* day counter of its keys by exactly one in the one step of the pipeline
\* and sets their times to live to 60 s, 3600 s and 86400 s from that step;
\* no other key changes in that step, and no step of any request raises
\* some but not all of the three counters of a user
C25_PipelineAtomic ==
    [][/\ \A t \in Tasks :
            pc[t] = "rl_incr" /\ pc'[t] = "rl_ret" /\ loc'[t].path = "redis" =>
              /\ loc'[t].allowed
              /\ \A g \in Grans :
                    LET k == RateKey(loc[t].user_id, g, loc[t].now)
                    IN  /\ k \in DOMAIN redis_rate'
                        /\ redis_rate'[k].val = RedisGet(redis_rate, k) + 1
                             \/ (RedisGet(redis_rate, k) = NoVal /\ redis_rate'[k].val = 1)
                        /\ redis_rate'[k].exp =
                             clock + (CASE g = "minute" -> 1
                                        [] g = "hour" -> MinutesPerHour
                                        [] g = "day" -> MinutesPerHour * HoursPerDay)
              /\ \A k \in DOMAIN redis_rate' :
                    k \notin {RateKey(loc[t].user_id, g, loc[t].now) : g \in Grans} =>
                      k \in DOMAIN redis_rate /\ redis_rate'[k] = redis_rate[k]
       /\ \A uid \in Identities :
            {g \in Grans : \E k \in DOMAIN redis_rate' :
                              /\ k[1] = uid /\ k[2] = g
                              /\ (k \notin DOMAIN redis_rate
                                    \/ redis_rate'[k].val # redis_rate[k].val)}
              \in {{}, Grans}]_vars

\* a call was allowed on the Redis path while another request was between
\* its reads, and the three counters of its keys are there
C25_Witness ==
    \E t \in Tasks, o \in Tasks :
        /\ o # t
        /\ pc[t] = "rl_ret" /\ loc[t].path = "redis" /\ loc[t].allowed
        /\ pc[o] \in {"rl_get_hour", "rl_get_day", "rl_incr"}
        /\ \A g \in Grans :
              /\ RateKey(loc[t].user_id, g, loc[t].now) \in DOMAIN redis_rate
              /\ redis_rate[RateKey(loc[t].user_id, g, loc[t].now)].val >= 1


\* C26: the counters are compared in the order minute, hour, day and the
\* first one at or above its limit is the one the refusal names: the
\* counters tighter than the named one were read and are under their limits,
\* the named one was read at or above its limit, the coarser ones were not
\* read
C26_TightestNamed ==
    \A t \in Tasks :
        pc[t] = "rl_ret" /\ loc[t].path = "redis" /\ ~loc[t].allowed =>
            LET rank == [g \in Grans |-> CASE g = "minute" -> 1
                                           [] g = "hour" -> 2
                                           [] g = "day" -> 3]
                r == loc[t].reason
            IN  /\ r \in Grans
                /\ loc[t].counts[r] # NoVal /\ loc[t].counts[r] >= loc[t].per[r]
                /\ \A g \in Grans :
                      /\ rank[g] < rank[r] =>
                           RedisGet(redis_rate, RateKey(loc[t].user_id, g, loc[t].now))
                             < loc[t].per[g]
                      /\ rank[g] > rank[r] => loc[t].counts[g] = InitLoc.counts[g]

\* a refusal names the minute while the hour counter of the same call is at
\* its limit as well
C26_Witness ==
    \E t \in Tasks :
        /\ pc[t] = "rl_ret" /\ loc[t].path = "redis" /\ ~loc[t].allowed
        /\ loc[t].reason = "minute"
        /\ RedisGet(redis_rate, RateKey(loc[t].user_id, "hour", loc[t].now))
             >= loc[t].per["hour"]


----------------------------------------------------------------------------
(* Properties of the result of the backend and of its cost *)

\* C27: a result that came from the backend carries the model of the call
\* that answered, AI_FALLBACK_MODEL when the fallback call answered and the
\* configured model of the provider otherwise, and the handler adds
\* estimate_cost(tokens_used, that model) to the user's total_cost_estimated
C27_ModelOfAnsweringAttempt ==
    \A t \in Tasks :
        pc[t] = "h_commit" /\ ~loc[t].from_cache =>
            LET answering == IF loc[t].fb_attempts = 1 THEN AI_FALLBACK_MODEL
                             ELSE IF settings.AI_PROVIDER = "openai"
                                  THEN settings.OPENAI_MODEL ELSE GEMINI
            IN  /\ loc[t].result.model = answering
                /\ loc[t].user.total_cost_estimated =
                     loc[t].start_user.total_cost_estimated
                       + EstimateCost(loc[t].result.tokens_used, answering)

\* the configured model failed in every round, the fallback model answered
\* and the user was charged the estimate of the fallback model, which is
\* not the estimate of the configured model
C27_Witness ==
    \E t \in Tasks :
        /\ pc[t] = "h_commit" /\ ~loc[t].from_cache
        /\ loc[t].fb_attempts = 1 /\ loc[t].retry_count = AI_MAX_RETRIES
        /\ loc[t].result.model = AI_FALLBACK_MODEL
        /\ EstimateCost(loc[t].result.tokens_used, settings.OPENAI_MODEL)
             # EstimateCost(loc[t].result.tokens_used, AI_FALLBACK_MODEL)
        /\ loc[t].user.total_cost_estimated =
             loc[t].start_user.total_cost_estimated
               + EstimateCost(loc[t].result.tokens_used, AI_FALLBACK_MODEL)


\* C28: the wait before the k-th retry is AI_RETRY_DELAY * k, each wait
\* longer than the one before by AI_RETRY_DELAY; there are never more
\* than AI_MAX_RETRIES waits, and every round but the last one is followed
\* by a wait: the fallback call and the raise come right after the last
\* failure
C28_LinearBackoff ==
    \A t \in Tasks :
        /\ Len(loc[t].waits) <= AI_MAX_RETRIES
        /\ \A k \in 1..Len(loc[t].waits) :
              /\ loc[t].waits[k] = AI_RETRY_DELAY * k
              /\ k > 1 => /\ loc[t].waits[k] > loc[t].waits[k - 1]
                          /\ loc[t].waits[k] - loc[t].waits[k - 1] = AI_RETRY_DELAY
        /\ pc[t] \in {"prov_fb_await", "prov_ret"} =>
              Len(loc[t].waits) = IF loc[t].tries = 0 THEN 0 ELSE loc[t].tries - 1

\* every round failed: the waits were AI_RETRY_DELAY, 2 * AI_RETRY_DELAY, ...
\* and the fallback call is under way after AI_MAX_RETRIES of them
C28_Witness ==
    \E t \in Tasks :
        /\ pc[t] = "prov_fb_await"
        /\ loc[t].tries = AI_MAX_RETRIES + 1
        /\ Len(loc[t].waits) = AI_MAX_RETRIES
        /\ loc[t].waits[1] = AI_RETRY_DELAY
        /\ loc[t].waits[AI_MAX_RETRIES] = AI_RETRY_DELAY * AI_MAX_RETRIES


\* C29: estimate_cost depends on its arguments alone: two applications to
\* the same token count and model give the same number of cents; for a
\* model of the price table more tokens never cost less; for a model
\* without a price, the names of cached results among them, the cost is 0;
\* the cost is a whole number of cents, never negative
C29_EstimateMonotone ==
    \A t \in Tasks :
        pc[t] = "ec_ret" =>
          /\ loc[t].cost \in Nat
          /\ loc[t].result.model \notin {GPT4, GPT35, GEMINI} => loc[t].cost = 0
          /\ \A o \in Tasks :
                pc[o] = "ec_ret" /\ loc[o].result.model = loc[t].result.model =>
                  /\ loc[t].result.tokens_used = loc[o].result.tokens_used =>
                        loc[t].cost = loc[o].cost
                  /\ loc[t].result.tokens_used <= loc[o].result.tokens_used =>
                        loc[t].cost <= loc[o].cost

\* 5500 tokens of gpt-4-turbo-preview cost 10 cents next to 5999 tokens that
\* cost 11
C29_Witness ==
    \E t \in Tasks, o \in Tasks :
        /\ pc[t] = "ec_ret" /\ pc[o] = "ec_ret"
        /\ loc[t].result.model = GPT4 /\ loc[o].result.model = GPT4
        /\ loc[t].result.tokens_used = 5500 /\ loc[o].result.tokens_used = 5999
        /\ loc[t].cost = 10 /\ loc[o].cost = 11


----------------------------------------------------------------------------
(* Properties of the writes of the cache *)

\* the rows of ai_cache this step added or whose content it replaced (the
\* hit_count aside)
RowsWritten ==
    {k \in DOMAIN db_cache' :
        \/ k \notin DOMAIN db_cache
        \/ db_cache'[k].response # db_cache[k].response
        \/ db_cache'[k].expires_at # db_cache[k].expires_at}

\* the keys of Redis this step set
KeysWritten ==
    {k \in DOMAIN redis_cache' :
        k \notin DOMAIN redis_cache \/ redis_cache'[k] # redis_cache[k]}

\* the step is a write of _save_cache under hash k, made by a call that
\* missed the cache and whose backend call answered
StoreOfMiss(k) ==
    \E t \in Tasks :
        /\ pc[t] \in {"sc_commit", "sc_setex"} /\ Fp(t) = k
        /\ loc[t].lookup = "miss" /\ ~loc[t].from_cache
        /\ loc[t].raised = "none" /\ loc[t].result # NoResult

\* the step is the write to Redis of a lookup that found the row of hash k
RepopOfHit(k) ==
    \E t \in Tasks :
        /\ pc[t] = "gc_repop" /\ Fp(t) = k
        /\ k \in DOMAIN db_cache
        /\ redis_cache'[k].val = db_cache[k].response

\* C30, as the claim states it: a row or a Redis key is written only by the
\* store of a call that missed the cache and whose backend call answered; a
\* call that hit the cache writes to neither tier
C30_WrittenOnlyAfterMiss ==
    [][/\ \A k \in RowsWritten : StoreOfMiss(k)
       /\ \A k \in KeysWritten : StoreOfMiss(k)]_vars

\* C30, amended: a row of ai_cache is written only by the store of a call
\* that missed the cache and whose backend call answered; a Redis key is
\* written by such a store or by a lookup that found the row of the hash and
\* copies its response to Redis; a request that was refused, a hit in Redis
\* and a call whose backend call failed write nothing
C30_WrittenAfterMissOrRepopulated ==
    [][/\ \A k \in RowsWritten : StoreOfMiss(k)
       /\ \A k \in KeysWritten : StoreOfMiss(k) \/ RepopOfHit(k)]_vars

\* a lookup found the row of a store that had not written to Redis, and
\* Redis holds the response now
C30_Witness ==
    \E t \in Tasks :
        /\ pc[t] = "pt_ret" /\ loc[t].lookup = "durable"
        /\ loc[t].prior_store # NoStore /\ loc[t].prior_store.volatile # "written"
        /\ Fp(t) \in DOMAIN redis_cache
        /\ redis_cache[Fp(t)].val = db_cache[Fp(t)].response


----------------------------------------------------------------------------
(* Properties of the totals of a user under concurrent requests *)

\* the request of the task was answered and is not yet closed
Answered(t) == pc[t] = "done" /\ loc[t].outcome = "answered"

\* C31: when the two requests of a user that were made have both been
\* answered, however their steps were interleaved, the row of the user
\* counts two messages, and its tokens and its cost are the sums over the
\* two requests
C31_TotalsNotLost ==
    calls = 2 /\ Answered("t1") /\ Answered("t2") =>
        LET u == db_users[1]
            r1 == loc["t1"].result
            r2 == loc["t2"].result
        IN  /\ u.total_messages_sent = 2
            /\ u.total_tokens_used = r1.tokens_used + r2.tokens_used
            /\ u.total_cost_estimated =
                 EstimateCost(r1.tokens_used, r1.model)
                   + EstimateCost(r2.tokens_used, r2.model)


----------------------------------------------------------------------------
(* Properties of the thresholds of the rate limiter *)

\* C32: check_rate_limit takes the paid thresholds exactly when the status
\* of the user is active and subscription_expires_at is set and later than
\* the time of the check; a free, trial, expired or cancelled user and an
\* active one whose subscription has ended or has no end get the free
\* thresholds
C32_PaidThresholdsWhileUnexpired ==
    [][\A t \in Tasks :
         pc[t] = "rl_select" /\ pc'[t] = "rl_client" =>
           LET u == db_users[loc[t].user_id]
               paid == /\ u.subscription_status = "active"
                       /\ u.subscription_expires_at # NoTime
                       /\ u.subscription_expires_at > clock
           IN  loc'[t].per =
                 IF paid
                 THEN [minute |-> RATE_LIMIT_PAID_PER_MINUTE,
                       hour |-> RATE_LIMIT_PAID_PER_HOUR,
                       day |-> RATE_LIMIT_PAID_PER_DAY]
                 ELSE [minute |-> RATE_LIMIT_FREE_PER_MINUTE,
                       hour |-> RATE_LIMIT_FREE_PER_HOUR,
                       day |-> RATE_LIMIT_FREE_PER_DAY]]_vars

\* a check of an active user made when the subscription has ended ran with
\* the free thresholds
C32_Witness ==
    \E t \in Tasks :
        /\ pc[t] = "rl_ret" /\ loc[t].path = "redis"
        /\ loc[t].user.subscription_status = "active"
        /\ loc[t].user.subscription_expires_at = SubExpiry
        /\ loc[t].now >= SubExpiry
        /\ loc[t].per.minute = RATE_LIMIT_FREE_PER_MINUTE
        /\ loc[t].per.day = RATE_LIMIT_FREE_PER_DAY


\* C33: a call of check_rate_limit that is refused changes no counter and
\* no time to live: the refusal is returned by a step that leaves Redis as
\* it is, whichever counter refused, and the steps of a call before the
\* pipeline write nothing
C33_DeniedNotCounted ==
    [][\A t \in Tasks :
         /\ pc'[t] # pc[t] /\ pc[t] # "rl_incr" => redis_rate' = redis_rate
         /\ pc'[t] = "rl_ret" /\ pc[t] # "rl_ret" /\ ~loc'[t].allowed =>
              /\ pc[t] # "rl_incr"
              /\ redis_rate' = redis_rate]_vars

\* a call was refused on the hour counter, which is still at the limit it
\* was read at
C33_Witness ==
    \E t \in Tasks :
        /\ pc[t] = "rl_ret" /\ loc[t].path = "redis" /\ ~loc[t].allowed
        /\ loc[t].reason = "hour"
        /\ RedisGet(redis_rate, RateKey(loc[t].user_id, "hour", loc[t].now))
             = loc[t].counts["hour"]
        /\ loc[t].counts["hour"] = loc[t].per["hour"]


----------------------------------------------------------------------------
(* Properties of the message quota *)

\* C34: every answered request of a user who is not paid at the time (the
\* status is not active, or the subscription has ended or has no end) raises
\* free_messages_used or trial_messages_used of the user by one, so that
\* the limit is reached after that many answered requests
C34_UnpaidRequestsCounted ==
    \A t \in Tasks :
        Answered(t)
          /\ ~(/\ loc[t].start_user.subscription_status = "active"
               /\ loc[t].start_user.subscription_expires_at # NoTime
               /\ loc[t].start_user.subscription_expires_at > clock) =>
            db_users[loc[t].user_id].free_messages_used
              + db_users[loc[t].user_id].trial_messages_used
              = loc[t].start_user.free_messages_used
                  + loc[t].start_user.trial_messages_used + 1


\* C35: with requests of one user handled at the same time, the counter of
\* the user's tier never passes its limit, and no more requests of a free or
\* trial user are answered than the limit allows (the users start with the
\* counters at 0)
C35_QuotaHoldsConcurrently ==
    LET u == db_users[1]
        answered == Cardinality({t \in Tasks : Answered(t) /\ loc[t].user_id = 1})
    IN  /\ u.subscription_status = "free" =>
              /\ u.free_messages_used <= u.free_messages_limit
              /\ answered <= u.free_messages_limit
        /\ u.subscription_status = "trial" =>
              /\ u.trial_messages_used <= u.trial_messages_limit
              /\ answered <= u.trial_messages_limit


----------------------------------------------------------------------------
(* Properties of the cache shared by the users *)

\* C36: the hash of a call is made of its text, the configured model and the
\* temperature, not of the user or the history; a call whose lookup ends
\* before the expires_at of the row an earlier call stored for that hash is
\* answered with the response of that call and the backend is not called,
\* whoever the two users are and whatever their histories
C36_CacheIgnoresUserAndHistory ==
    \A t \in Tasks :
        /\ pc[t] # "idle" /\ loc[t].prompt # "" =>
              Fp(t) = <<loc[t].prompt,
                        IF settings.AI_PROVIDER = "openai"
                        THEN settings.OPENAI_MODEL ELSE GEMINI,
                        OPENAI_TEMPERATURE>>
        /\ pc[t] = "pt_ret" /\ loc[t].prior_store # NoStore
             /\ loc[t].prior_store.volatile # "not_tried"
             /\ loc[t].lookup_t1 < loc[t].prior_store.exp =>
              /\ loc[t].from_cache
              /\ loc[t].result.response = loc[t].prior_store.response
              /\ loc[t].tries = 0 /\ ~Ran(t, "provider")

\* a call of another user with another history was answered from the cache
\* with the response stored by the first call
C36_Witness ==
    \E t \in Tasks :
        /\ pc[t] = "pt_ret" /\ loc[t].from_cache
        /\ loc[t].prior_store # NoStore
        /\ loc[t].prior_store.user_id # loc[t].user_id
        /\ loc[t].prior_store.history # loc[t].history
        /\ loc[t].result.response = loc[t].prior_store.response
        /\ loc[t].tries = 0


----------------------------------------------------------------------------
(* Properties of a request of a user without a row *)

----------------------------------------------------------------------------
(* Properties of the subscription check when the database fails *)

\* C38: with a channel configured, when the select of the user raises,
\* check_subscription returns True without a message, for a user who was
\* never checked and for one without a row alike; Telegram is not asked, and
\* neither this step nor the steps of the call before it change the row of
\* the user or the key of Redis
C38_DatabaseFailurePasses ==
    [][\A t \in Tasks :
         /\ pc'[t] # pc[t] /\ pc[t] \in {"cs_client", "cs_ping", "cs_redis_get", "cs_select"} =>
              UNCHANGED <<db_users, redis_sub>>
         /\ pc'[t] = "cs_ret" /\ pc[t] # "cs_ret" /\ loc'[t].gate_src = "error" =>
              /\ pc[t] = "cs_select"
              /\ settings.REQUIRED_CHANNEL_SET
              /\ loc'[t].gate_ok /\ loc'[t].gate_msg = "none"]_vars

\* the select raised in the check of a user whose row was never checked,
\* and the user passes
C38_Witness ==
    \E t \in Tasks :
        /\ pc[t] = "cs_ret" /\ loc[t].gate_src = "error" /\ loc[t].gate_ok
        /\ settings.REQUIRED_CHANNEL_SET
        /\ db_users[loc[t].user_id].exists
        /\ db_users[loc[t].user_id].channel_checked_at = NoTime
        /\ ~db_users[loc[t].user_id].channel_subscribed
        /\ loc[t].user_id \notin DOMAIN redis_sub


----------------------------------------------------------------------------
(* Properties of the two tiers of the cache together *)

\* C39: with the cache in use, whenever Redis holds a response under a hash
\* the table ai_cache holds a row of that hash with the same response: Redis
\* is written after the INSERT of a store has committed or after a lookup
\* found the row, and a store whose INSERT failed writes nothing to Redis
C39_VolatileBackedByDurable ==
    settings.AI_CACHE_ENABLED =>
        \A k \in DOMAIN redis_cache :
            /\ k \in DOMAIN db_cache
            /\ db_cache[k].response = redis_cache[k].val

\* the INSERT of a store of another response failed, and Redis holds the
\* response of the row
C39_Witness ==
    \E k \in DOMAIN redis_cache :
        /\ settings.AI_CACHE_ENABLED
        /\ k \in DOMAIN storeLog /\ storeLog[k].volatile = "not_tried"
        /\ storeLog[k].response # db_cache[k].response
        /\ redis_cache[k].val = db_cache[k].response

====
